---- MODULE Spec2Model ----
(***************************************************************************)
(* A model of the GenVideo video-generation core: the durable job store    *)
(* (backend/app/state.py), the per-job worker and its runner threads, the  *)
(* HTTP handlers that create, cancel, resume, read and delete jobs         *)
(* (backend/app/services/video_service.py, backend/app/main.py), process   *)
(* crash and startup recovery, and the scene-reuse ring of the worker.     *)
(*                                                                         *)
(* Granularity. A worker step is one read of shared state (the cancel row, *)
(* a clip file, the final file) with the _update_job it leads to, or one   *)
(* write of a file. _update_job is a get followed by a set; the row the    *)
(* worker reads only supplies clip_count and the image source report when  *)
(* the caller passes none, never the status it writes, so the pair is one  *)
(* step there. The cancel check after compose and the store of completed   *)
(* are two steps, and so are the write of a clip and the store of its      *)
(* progress. cancel_job and resume_job decide on the row they read, so     *)
(* their get and their set are separate steps and the worker threads       *)
(* interleave between them. HTTP handlers run on the one event-loop        *)
(* thread: one handler is in flight at a time, and the startup hook ends   *)
(* before any request is served.                                           *)
(***************************************************************************)
EXTENDS Integers, Sequences, FiniteSets, TLC

\* ------------------------------------------------------------------ bounds
JobIdSeq == <<"j1", "j2">>
JobIds == {JobIdSeq[i] : i \in 1..Len(JobIdSeq)}
MaxSegments == 2
MaxThreadsPerJob == 2
MaxTallied == 2
MaxCrashes == 2
MaxScenes == 3
MaxWindow == 2
MaxEntries == 3
MaxFillers == 9
MaxTextBody == 8
MaxRuns == 2
MaxKept == 2
MaxSaves == 5
MaxCandidates == 4
MaxChars == 4
MaxToken == 4
Slots == 1..MaxThreadsPerJob
BaseUrls == {"http://a"}

\* --------------------------------------------------------------- constants
MinFinalBytes == 16384
Absent == -1
NoEntry == 0
EntryIds == 1..MaxEntries
ComposedSizes == {MinFinalBytes - 1, MinFinalBytes}

SourceKeys == {"cache", "generated", "fallback_llm", "fallback_cache",
               "fallback_character_cache", "fallback_scene_only_cache",
               "fallback_reference", "fallback_random_cache", "other"}
\* The label the resolver returns; which label it is is decided in the
\* resolver (ResolverSpec), the worker only tallies it.
ImageOutcomes == {"generated"}

\* Strings, with the blanks str.strip() removes.
TextValues == {"s", " s ", "t"}
SegmentItems == {"", " ", "s", " s "}
Strip(s) == CASE s = " " -> ""
              [] s = " s " -> "s"
              [] s = " zh-CN-XiaoyiNeural " -> "zh-CN-XiaoyiNeural"
              [] OTHER -> s

VARIABLES
    jobs,            \* jobs table: job id -> row (status "none": no row)
    payloads,        \* job_payloads table
    cancel_flags,    \* job_cancel_flags table: set of job ids
    updated_order,   \* job ids with a row, by updated_at ascending
    created_order,   \* job ids with a row, by created_at ascending
    clips,           \* temp/<job>/clips: job id -> set of clip indexes on disk
    whole_clips,     \* the clip indexes whose file write_videofile finished
    final_size,      \* output/<job>.mp4: its size in bytes, Absent when missing
    ACTIVE_RUNNERS,  \* the process-wide set of job ids with a runner thread
    worker,          \* runner threads: job id -> slot -> thread state
    http,            \* the HTTP handler (or startup hook) in flight
    used_ids,        \* job ids create_job has drawn
    crashes,         \* number of process crashes so far (counted where bounded)
    scene_entries,   \* scene cache: the ids of the rows of scene_entries
    recent_scene_entry_ids,  \* run_video_job's deque of recently used entry ids
    scene_run,       \* the run that owns the deque, and what it recorded
    call             \* the last call of a function: its arguments and its result

storeVars == <<jobs, payloads, cancel_flags, updated_order, created_order>>
diskVars == <<clips, whole_clips, final_size>>
procVars == <<ACTIVE_RUNNERS, worker, http>>
envVars == <<used_ids, crashes>>
sceneVars == <<scene_entries, recent_scene_entry_ids, scene_run>>
jobVars == <<storeVars, diskVars, procVars, envVars>>
callVars == <<call>>
vars == <<jobs, payloads, cancel_flags, updated_order, created_order, clips,
          whole_clips, final_size, ACTIVE_RUNNERS, worker, http, used_ids, crashes,
          scene_entries, recent_scene_entry_ids, scene_run, call>>

\* --------------------------------------------------------------- job store
ZeroCounts == [key \in SourceKeys |-> 0]
NoReport == [present |-> FALSE, source_counts |-> ZeroCounts]
NullRow == [status |-> "none", message |-> "", current_segment |-> 0,
            total_segments |-> 0, output_video_path |-> "", clip_count |-> 0,
            image_source_report |-> NoReport]
NullPayload == [present |-> FALSE, segments |-> 0, base_url |-> ""]

RemoveId(seq, j) == SelectSeq(seq, LAMBDA x : x # j)

\* JobStore.set: upsert of every mutable column, updated_at = now, created_at
\* kept on conflict.
JobStoreSet(j, row) ==
    /\ jobs' = [jobs EXCEPT ![j] = row]
    /\ updated_order' = Append(RemoveId(updated_order, j), j)
    /\ created_order' = IF jobs[j].status = "none"
                        THEN Append(created_order, j) ELSE created_order

\* faulty variant: the row of job_cancel_flags is left behind
JobStoreDeleteJobKeepsFlag(j) ==
    /\ jobs' = [jobs EXCEPT ![j] = NullRow]
    /\ payloads' = [payloads EXCEPT ![j] = NullPayload]
    /\ cancel_flags' = cancel_flags
    /\ updated_order' = RemoveId(updated_order, j)
    /\ created_order' = RemoveId(created_order, j)

\* JobStore.delete_job: three DELETEs under the lock, one commit.
JobStoreDeleteJob(j) ==
    /\ jobs' = [jobs EXCEPT ![j] = NullRow]
    /\ payloads' = [payloads EXCEPT ![j] = NullPayload]
    /\ cancel_flags' = cancel_flags \ {j}
    /\ updated_order' = RemoveId(updated_order, j)
    /\ created_order' = RemoveId(created_order, j)

\* faulty variant: WHERE status = 'running'
list_running_job_ids == SelectSeq(updated_order, LAMBDA j : jobs[j].status = "running")

\* JobStore.list_incomplete_job_ids: WHERE status IN ('queued','running')
\* ORDER BY updated_at ASC.
IsIncomplete(row) == row.status \in {"queued", "running"}
list_incomplete_job_ids == SelectSeq(updated_order, LAMBDA j : IsIncomplete(jobs[j]))

\* faulty variant: the row's status is read instead of the flag table
is_cancelledByStatus(j) == jobs[j].status = "cancelled"

is_cancelled(j) == j \in cancel_flags

SumCounts(counts) ==
    LET RECURSIVE Sum(_)
        Sum(S) == IF S = {} THEN 0
                  ELSE LET key == CHOOSE x \in S : TRUE
                       IN counts[key] + Sum(S \ {key})
    IN Sum(SourceKeys)

\* _build_image_source_report: None when nothing was counted.
BuildImageSourceReport(counts) ==
    IF SumCounts(counts) <= 0 THEN NoReport
    ELSE [present |-> TRUE, source_counts |-> counts]

\* _restore_image_source_counts: the persisted counts override the fresh ones.
RestoreImageSourceCounts(row, counts) ==
    IF row.status = "none" THEN counts
    ELSE IF ~row.image_source_report.present THEN counts
    ELSE [key \in SourceKeys |-> row.image_source_report.source_counts[key]]

\* _update_job: the row it stores.  clip_count = -1 and report = NoReport stand
\* for "not passed": both then come from the row just read.
UpdatedRow(cur, status, message, cs, ts, path, clip_count, report) ==
    [status |-> status, message |-> message,
     current_segment |-> cs, total_segments |-> ts,
     output_video_path |-> path,
     clip_count |-> IF clip_count >= 0 THEN clip_count
                    ELSE IF cur.status # "none" THEN cur.clip_count ELSE 0,
     image_source_report |->
        IF report.present THEN report
        ELSE IF cur.status # "none" THEN cur.image_source_report ELSE NoReport]

UpdateJob(j, status, message, cs, ts, path, clip_count, report) ==
    JobStoreSet(j, UpdatedRow(jobs[j], status, message, cs, ts, path, clip_count, report))

\* ------------------------------------------------------------- the threads
IdleWorker == [pc |-> "idle", segments |-> 0, base_url |-> "", index |-> 0,
               total |-> 0, rendered_clip_count |-> 0,
               image_source_counts |-> ZeroCounts,
               seen_existing |-> {}, ops_started |-> {},
               rendered |-> {}, final_ok_seen |-> FALSE, composed |-> FALSE,
               compose_clips |-> {}, cancel_seen_at |-> -1]
NewWorker(segments, base_url) ==
    [IdleWorker EXCEPT !.pc = "begin", !.segments = segments, !.base_url = base_url]

IdleHttp == [op |-> "none", pc |-> "", job |-> "", cur |-> NullRow,
             segments |-> 0, base_url |-> "", todo |-> <<>>]

FreeSlots(j) == {k \in Slots : worker[j][k].pc = "idle"}

\* faulty variant: the membership test is left out
RunnerAlwaysAbsent(j) == TRUE

\* _start_job_runner, line 2279: the membership test under _RUNNER_LOCK.
RunnerAbsent(j) == j \notin ACTIVE_RUNNERS

\* faulty variant: the id is added, the thread is never started
StartJobRunnerNoThread(j, segments, base_url) ==
    /\ ACTIVE_RUNNERS' = ACTIVE_RUNNERS \cup {j}
    /\ UNCHANGED worker

\* _start_job_runner: test-and-add under the lock, then Thread(...).start().
StartJobRunner(j, segments, base_url) ==
    IF RunnerAbsent(j) /\ FreeSlots(j) # {}
    THEN /\ ACTIVE_RUNNERS' = ACTIVE_RUNNERS \cup {j}
         /\ LET k == CHOOSE x \in FreeSlots(j) : \A y \in FreeSlots(j) : x <= y
            IN worker' = [worker EXCEPT ![j][k] = NewWorker(segments, base_url)]
    ELSE UNCHANGED <<ACTIVE_RUNNERS, worker>>

\* no run: the fields are those of run_video_job's locals around the resolver
IdleSceneRun == [pc |-> "idle", lookback_scenes |-> 0, enable_scene_image_reuse |-> FALSE,
                 index |-> 0, recorded |-> <<>>, image_source |-> "",
                 reused_entry_id |-> NoEntry, earlier |-> <<>>]

\* no function has been called
NoCall == [op |-> "none"]

Init ==
    /\ jobs = [j \in JobIds |-> NullRow]
    /\ payloads = [j \in JobIds |-> NullPayload]
    /\ cancel_flags = {}
    /\ updated_order = <<>>
    /\ created_order = <<>>
    /\ clips = [j \in JobIds |-> {}]
    /\ whole_clips = [j \in JobIds |-> {}]
    /\ final_size = [j \in JobIds |-> Absent]
    /\ ACTIVE_RUNNERS = {}
    /\ worker = [j \in JobIds |-> [k \in Slots |-> IdleWorker]]
    /\ http = IdleHttp
    /\ used_ids = {}
    /\ crashes = 0
    /\ scene_entries = {}
    /\ recent_scene_entry_ids = <<>>
    /\ scene_run = IdleSceneRun
    /\ call = NoCall

\* ---------------------------------------------------------------- create_job
\* faulty variant: create_job goes on without storing the payload
CreateJobWithoutPayload(j, n, u) ==
    /\ http.op = "none"
    /\ Cardinality(used_ids) < Len(JobIdSeq)
    /\ j = JobIdSeq[Cardinality(used_ids) + 1]
    /\ used_ids' = used_ids \cup {j}
    /\ http' = [IdleHttp EXCEPT !.op = "create", !.pc = "queue", !.job = j,
                                !.segments = n, !.base_url = u]
    /\ UNCHANGED <<jobs, payloads, cancel_flags, updated_order, created_order, diskVars,
                   ACTIVE_RUNNERS, worker, crashes, sceneVars, callVars>>

\* uuid4().hex is a fresh id; save_payload comes first.
CreateJobSavePayload(j, n, u) ==
    /\ http.op = "none"
    /\ Cardinality(used_ids) < Len(JobIdSeq)
    /\ j = JobIdSeq[Cardinality(used_ids) + 1]
    /\ used_ids' = used_ids \cup {j}
    /\ payloads' = [payloads EXCEPT ![j] = [present |-> TRUE, segments |-> n, base_url |-> u]]
    /\ http' = [IdleHttp EXCEPT !.op = "create", !.pc = "queue", !.job = j,
                                !.segments = n, !.base_url = u]
    /\ UNCHANGED <<jobs, cancel_flags, updated_order, created_order, diskVars,
                   ACTIVE_RUNNERS, worker, crashes, sceneVars, callVars>>

CreateJobQueue(j) ==
    /\ http.op = "create" /\ http.pc = "queue" /\ http.job = j
    /\ UpdateJob(j, "queued", "Job queued", 0, 0, "", -1, NoReport)
    /\ http' = [http EXCEPT !.pc = "start"]
    /\ UNCHANGED <<payloads, cancel_flags, diskVars, ACTIVE_RUNNERS, worker, envVars, sceneVars, callVars>>

CreateJobStart(j) ==
    /\ http.op = "create" /\ http.pc = "start" /\ http.job = j
    /\ StartJobRunner(j, http.segments, http.base_url)
    /\ http' = IdleHttp
    /\ UNCHANGED <<storeVars, diskVars, envVars, sceneVars, callVars>>

\* ------------------------------------------------------------ generate_video
\* segment_groups_range as a request carries it: none, a lone number, a lone
\* zero, a token that is no number or range, a range from zero, a range past
\* the last segment.
SegmentGroupsRanges == {"", "1", "0", "x", "0-1", "9-9"}

\* select_segments_by_range and lines 1926-1934 of run_video_job: how many of
\* total segments the run goes on with, 0 when ValueError is raised (a token
\* that does not parse, a value below 1 in a range, nothing selected)
SelectSegmentsByRange(total, range_spec) ==
    CASE range_spec = "" -> total
      [] range_spec = "1" -> IF total >= 1 THEN 1 ELSE 0
      [] range_spec = "0" -> total
      [] range_spec = "x" -> 0
      [] range_spec = "0-1" -> 0
      [] range_spec = "9-9" -> 0

\* generate_video refused the request: HTTP 400, create_job is not called
GenerateVideoRefuse(text, range_spec) ==
    /\ http.op = "none"
    /\ call = NoCall
    /\ Strip(text) = ""
    /\ call' = [op |-> "generate_video", text |-> text,
                segment_groups_range |-> range_spec, job |-> "", status_code |-> 400]
    /\ UNCHANGED <<jobVars, sceneVars>>

\* generate_video, lines 665-671, with create_job up to save_payload: the
\* text is all that is looked at
GenerateVideo(j, text, n, range_spec, u) ==
    /\ http.op = "none"
    /\ call = NoCall
    /\ Strip(text) # ""
    /\ Cardinality(used_ids) < Len(JobIdSeq)
    /\ j = JobIdSeq[Cardinality(used_ids) + 1]
    /\ used_ids' = used_ids \cup {j}
    /\ payloads' = [payloads EXCEPT ![j] =
            [present |-> TRUE, segments |-> SelectSegmentsByRange(n, range_spec),
             base_url |-> u]]
    /\ http' = [IdleHttp EXCEPT !.op = "create", !.pc = "queue", !.job = j,
                                !.segments = SelectSegmentsByRange(n, range_spec),
                                !.base_url = u]
    /\ call' = [op |-> "generate_video", text |-> text,
                segment_groups_range |-> range_spec, job |-> j, status_code |-> 200]
    /\ UNCHANGED <<jobs, cancel_flags, updated_order, created_order, diskVars,
                   ACTIVE_RUNNERS, worker, crashes, sceneVars>>

\* ------------------------------------------------------------ run_video_job
W(j, k) == worker[j][k]
SetWorker(j, k, rec) == worker' = [worker EXCEPT ![j][k] = rec]

\* faulty variant: the path of the next index is tested
ClipFileExistsNext(j, i) == (i + 1) \in clips[j]

\* line 2017: clip_path.exists() and clip_path.is_file()
ClipFileExists(j, i) == i \in clips[j]

\* faulty variant: a file of exactly the minimum size is refused
FinalSizeStrict(size) == size # Absent /\ size > MinFinalBytes

\* lines 2178-2186: the final file exists and has at least 16384 bytes
FinalSizeOk(size) == size # Absent /\ size >= MinFinalBytes

\* faulty variant: the last index is not looked at
CollectClipPathsShort(j, total) == \A i \in 0..(total - 2) : i \in clips[j]

\* _collect_clip_paths_for_compose: every clip_0000 .. clip_{total-1} is a file
CollectClipPathsOk(j, total) == \A i \in 0..(total - 1) : i \in clips[j]

\* where the for loop goes after finishing index i
AfterSegment(i, total) == IF i + 1 < total THEN "top" ELSE "post_loop"

\* lines 1900-1925: restore the persisted counts, then store running/segment
WorkerBegin(j, k) ==
    /\ W(j, k).pc = "begin"
    /\ SetWorker(j, k, [W(j, k) EXCEPT
            !.pc = "segment",
            !.image_source_counts = RestoreImageSourceCounts(jobs[j], ZeroCounts)])
    /\ UpdateJob(j, "running", "Segmenting text", 0, 0, "", -1, NoReport)
    /\ UNCHANGED <<payloads, cancel_flags, diskVars, ACTIVE_RUNNERS, http, envVars, sceneVars, callVars>>

\* lines 1926-1946: segmentation, voices, world summary; total = len(segments)
WorkerSegmentOk(j, k) ==
    /\ W(j, k).pc = "segment"
    /\ W(j, k).segments > 0
    /\ SetWorker(j, k, [W(j, k) EXCEPT
            !.total = W(j, k).segments, !.index = 0, !.pc = "top"])
    /\ UNCHANGED <<storeVars, diskVars, ACTIVE_RUNNERS, http, envVars, sceneVars, callVars>>

\* lines 1926-1939: a collaborator raises, or no segment group is produced
WorkerSegmentFail(j, k) ==
    /\ W(j, k).pc = "segment"
    /\ SetWorker(j, k, [W(j, k) EXCEPT !.pc = "except"])
    /\ UNCHANGED <<storeVars, diskVars, ACTIVE_RUNNERS, http, envVars, sceneVars, callVars>>

\* lines 1949-1961: the cancel check at the top of the iteration
WorkerCancelAtTop(j, k) ==
    /\ W(j, k).pc = "top"
    /\ is_cancelled(j)
    /\ UpdateJob(j, "cancelled", "Job cancelled", W(j, k).index, W(j, k).total, "",
                 W(j, k).rendered_clip_count, NoReport)
    /\ SetWorker(j, k, [W(j, k) EXCEPT
            !.pc = "finally",
            !.cancel_seen_at = IF j \in cancel_flags THEN W(j, k).index ELSE @])
    /\ UNCHANGED <<payloads, cancel_flags, diskVars, ACTIVE_RUNNERS, http, envVars, sceneVars, callVars>>

\* lines 1963-1977: not cancelled, store running/render-segment
WorkerIterate(j, k) ==
    /\ W(j, k).pc = "top"
    /\ ~is_cancelled(j)
    /\ UpdateJob(j, "running", "Rendering scene", W(j, k).index + 1, W(j, k).total, "",
                 W(j, k).rendered_clip_count, NoReport)
    /\ SetWorker(j, k, [W(j, k) EXCEPT
            !.pc = "clip_check",
            !.cancel_seen_at = IF j \in cancel_flags THEN W(j, k).index ELSE @])
    /\ UNCHANGED <<payloads, cancel_flags, diskVars, ACTIVE_RUNNERS, http, envVars, sceneVars, callVars>>

\* faulty variant: a clip found on disk is not counted
WorkerSkipClipUncounted(j, k) ==
    LET w == W(j, k) IN
    /\ w.pc = "clip_check"
    /\ ClipFileExists(j, w.index)
    /\ UpdateJob(j, "running", "Scene resumed from checkpoint", w.index + 1, w.total, "",
                 w.rendered_clip_count, NoReport)
    /\ SetWorker(j, k, [w EXCEPT
            !.seen_existing = IF w.index \in clips[j]
                              THEN w.seen_existing \cup {w.index} ELSE w.seen_existing,
            !.index = w.index + 1,
            !.pc = AfterSegment(w.index, w.total)])
    /\ UNCHANGED <<payloads, cancel_flags, diskVars, ACTIVE_RUNNERS, http, envVars, sceneVars, callVars>>

\* lines 2017-2033: the clip is on disk, count it and continue
WorkerSkipClip(j, k) ==
    LET w == W(j, k) IN
    /\ w.pc = "clip_check"
    /\ ClipFileExists(j, w.index)
    /\ UpdateJob(j, "running", "Scene resumed from checkpoint", w.index + 1, w.total, "",
                 w.rendered_clip_count + 1, NoReport)
    /\ SetWorker(j, k, [w EXCEPT
            !.rendered_clip_count = w.rendered_clip_count + 1,
            !.seen_existing = IF w.index \in clips[j]
                              THEN w.seen_existing \cup {w.index} ELSE w.seen_existing,
            !.index = w.index + 1,
            !.pc = AfterSegment(w.index, w.total)])
    /\ UNCHANGED <<payloads, cancel_flags, diskVars, ACTIVE_RUNNERS, http, envVars, sceneVars, callVars>>

\* lines 2035-2092: prompt and TTS tasks are created, the prompt bundle arrives
WorkerPromptTts(j, k) ==
    LET w == W(j, k) IN
    /\ w.pc = "clip_check"
    /\ ~ClipFileExists(j, w.index)
    /\ SetWorker(j, k, [w EXCEPT
            !.ops_started = w.ops_started \cup {w.index},
            !.seen_existing = IF w.index \in clips[j]
                              THEN w.seen_existing \cup {w.index} ELSE w.seen_existing,
            !.pc = "image"])
    /\ UNCHANGED <<storeVars, diskVars, ACTIVE_RUNNERS, http, envVars, sceneVars, callVars>>

\* lines 2094-2121: the resolver returns a source label, which is tallied
WorkerImage(j, k, source) ==
    LET w == W(j, k) IN
    /\ w.pc = "image"
    /\ SumCounts(w.image_source_counts) < MaxTallied
    /\ SetWorker(j, k, [w EXCEPT
            !.image_source_counts = [w.image_source_counts EXCEPT ![source] = @ + 1],
            !.pc = "render"])
    /\ UNCHANGED <<storeVars, diskVars, ACTIVE_RUNNERS, http, envVars, sceneVars, callVars>>

\* lines 2058, 2108: the prompt builder, the TTS or the resolver raises
WorkerImageFail(j, k) ==
    /\ W(j, k).pc = "image"
    /\ SetWorker(j, k, [W(j, k) EXCEPT !.pc = "except"])
    /\ UNCHANGED <<storeVars, diskVars, ACTIVE_RUNNERS, http, envVars, sceneVars, callVars>>

\* lines 2129-2141: _render_clip_sync writes clips/clip_<index>.mp4
WorkerRender(j, k) ==
    LET w == W(j, k) IN
    /\ w.pc = "render"
    /\ clips' = [clips EXCEPT ![j] = @ \cup {w.index}]
    /\ whole_clips' = [whole_clips EXCEPT ![j] = @ \cup {w.index}]
    /\ SetWorker(j, k, [w EXCEPT !.rendered = w.rendered \cup {w.index},
                                 !.pc = "rendered"])
    /\ UNCHANGED <<storeVars, final_size, ACTIVE_RUNNERS, http, envVars, sceneVars, callVars>>

\* lines 2129-2141: _render_clip_sync raises; write_videofile writes straight
\* to the clip path, so a part of the file may stay behind
WorkerRenderFail(j, k, left) ==
    LET w == W(j, k) IN
    /\ w.pc = "render"
    /\ clips' = [clips EXCEPT ![j] = IF left THEN @ \cup {w.index} ELSE @]
    /\ whole_clips' = [whole_clips EXCEPT ![j] = IF left THEN @ \ {w.index} ELSE @]
    /\ SetWorker(j, k, [w EXCEPT !.pc = "except"])
    /\ UNCHANGED <<storeVars, final_size, ACTIVE_RUNNERS, http, envVars, sceneVars, callVars>>

\* _render_clip_sync in two steps (lines 1317-1326): write_videofile creates
\* clips/clip_<index>.mp4 under its final name and fills it ...
WorkerRenderOpen(j, k) ==
    LET w == W(j, k) IN
    /\ w.pc = "render"
    /\ clips' = [clips EXCEPT ![j] = @ \cup {w.index}]
    /\ whole_clips' = [whole_clips EXCEPT ![j] = @ \ {w.index}]
    /\ SetWorker(j, k, [w EXCEPT !.pc = "writing"])
    /\ UNCHANGED <<storeVars, final_size, ACTIVE_RUNNERS, http, envVars, sceneVars, callVars>>

\* ... and returns when the file is complete
WorkerRenderClose(j, k) ==
    LET w == W(j, k) IN
    /\ w.pc = "writing"
    /\ whole_clips' = [whole_clips EXCEPT ![j] = @ \cup {w.index}]
    /\ SetWorker(j, k, [w EXCEPT !.rendered = w.rendered \cup {w.index},
                                 !.pc = "rendered"])
    /\ UNCHANGED <<storeVars, clips, final_size, ACTIVE_RUNNERS, http, envVars, sceneVars, callVars>>

\* lines 2142-2157: the clip is counted and the progress stored with the report
WorkerRenderStored(j, k) ==
    LET w == W(j, k) IN
    /\ w.pc = "rendered"
    /\ UpdateJob(j, "running", "Scene rendered", w.index + 1, w.total, "",
                 w.rendered_clip_count + 1, BuildImageSourceReport(w.image_source_counts))
    /\ SetWorker(j, k, [w EXCEPT
            !.rendered_clip_count = w.rendered_clip_count + 1,
            !.index = w.index + 1,
            !.pc = AfterSegment(w.index, w.total)])
    /\ UNCHANGED <<payloads, cancel_flags, diskVars, ACTIVE_RUNNERS, http, envVars, sceneVars, callVars>>

\* lines 2159-2172: the cancel check after the loop
WorkerCancelAfterLoop(j, k) ==
    LET w == W(j, k) IN
    /\ w.pc = "post_loop"
    /\ is_cancelled(j)
    /\ UpdateJob(j, "cancelled", "Job cancelled", w.total, w.total, "",
                 w.rendered_clip_count, BuildImageSourceReport(w.image_source_counts))
    /\ SetWorker(j, k, [w EXCEPT !.pc = "finally"])
    /\ UNCHANGED <<payloads, cancel_flags, diskVars, ACTIVE_RUNNERS, http, envVars, sceneVars, callVars>>

\* lines 2174-2200: the final file is already there, mark completed
WorkerFinalExists(j, k) ==
    LET w == W(j, k) IN
    /\ w.pc = "post_loop"
    /\ ~is_cancelled(j)
    /\ FinalSizeOk(final_size[j])
    /\ UpdateJob(j, "completed", "Video already exists, job recovered", w.total, w.total,
                 j, w.rendered_clip_count, BuildImageSourceReport(w.image_source_counts))
    /\ SetWorker(j, k, [w EXCEPT
            !.pc = "finally",
            !.final_ok_seen = (final_size[j] # Absent /\ final_size[j] >= 16384)])
    /\ UNCHANGED <<payloads, cancel_flags, diskVars, ACTIVE_RUNNERS, http, envVars, sceneVars, callVars>>

\* lines 2202-2212: store running/compose
WorkerComposeBegin(j, k) ==
    LET w == W(j, k) IN
    /\ w.pc = "post_loop"
    /\ ~is_cancelled(j)
    /\ ~FinalSizeOk(final_size[j])
    /\ UpdateJob(j, "running", "Composing final video", w.total, w.total, "",
                 w.rendered_clip_count, NoReport)
    /\ SetWorker(j, k, [w EXCEPT
            !.pc = "compose",
            !.final_ok_seen = (final_size[j] # Absent /\ final_size[j] >= 16384)])
    /\ UNCHANGED <<payloads, cancel_flags, diskVars, ACTIVE_RUNNERS, http, envVars, sceneVars, callVars>>

\* lines 2214-2230: the clips are collected and _render_final_sync writes the file
WorkerCompose(j, k, size) ==
    LET w == W(j, k) IN
    /\ w.pc = "compose"
    /\ CollectClipPathsOk(j, w.total)
    /\ final_size' = [final_size EXCEPT ![j] = size]
    /\ SetWorker(j, k, [w EXCEPT !.pc = "post_compose", !.composed = TRUE,
                                 !.compose_clips = clips[j]])
    /\ UNCHANGED <<storeVars, clips, whole_clips, ACTIVE_RUNNERS, http, envVars, sceneVars, callVars>>

\* faulty variant: the compositor runs on the clips that are there
WorkerComposeMissingClipComposes(j, k) ==
    /\ W(j, k).pc = "compose"
    /\ ~CollectClipPathsOk(j, W(j, k).total)
    /\ final_size' = [final_size EXCEPT ![j] = MinFinalBytes]
    /\ SetWorker(j, k, [W(j, k) EXCEPT !.pc = "post_compose", !.composed = TRUE])
    /\ UNCHANGED <<storeVars, clips, whole_clips, ACTIVE_RUNNERS, http, envVars, sceneVars, callVars>>

\* line 2214: a clip is missing, FileNotFoundError
WorkerComposeMissingClip(j, k) ==
    /\ W(j, k).pc = "compose"
    /\ ~CollectClipPathsOk(j, W(j, k).total)
    /\ SetWorker(j, k, [W(j, k) EXCEPT !.pc = "except"])
    /\ UNCHANGED <<storeVars, diskVars, ACTIVE_RUNNERS, http, envVars, sceneVars, callVars>>

\* lines 2216-2230: _render_final_sync raises; what it wrote so far stays
WorkerComposeFail(j, k, size) ==
    LET w == W(j, k) IN
    /\ w.pc = "compose"
    /\ CollectClipPathsOk(j, w.total)
    /\ final_size' = [final_size EXCEPT ![j] = size]
    /\ SetWorker(j, k, [w EXCEPT !.pc = "except", !.composed = TRUE,
                                 !.compose_clips = clips[j]])
    /\ UNCHANGED <<storeVars, clips, whole_clips, ACTIVE_RUNNERS, http, envVars, sceneVars, callVars>>

\* lines 2232-2245: the cancel check after compose
WorkerCancelAfterCompose(j, k) ==
    LET w == W(j, k) IN
    /\ w.pc = "post_compose"
    /\ is_cancelled(j)
    /\ UpdateJob(j, "cancelled", "Job cancelled during compose stage", w.total, w.total, "",
                 w.rendered_clip_count, BuildImageSourceReport(w.image_source_counts))
    /\ SetWorker(j, k, [w EXCEPT !.pc = "finally"])
    /\ UNCHANGED <<payloads, cancel_flags, diskVars, ACTIVE_RUNNERS, http, envVars, sceneVars, callVars>>

\* line 2232: the cancel check after compose finds no flag
WorkerNotCancelledAfterCompose(j, k) ==
    /\ W(j, k).pc = "post_compose"
    /\ ~is_cancelled(j)
    /\ SetWorker(j, k, [W(j, k) EXCEPT !.pc = "complete"])
    /\ UNCHANGED <<storeVars, diskVars, ACTIVE_RUNNERS, http, envVars, sceneVars, callVars>>

\* lines 2247-2259: store completed with the output path
WorkerComplete(j, k) ==
    LET w == W(j, k) IN
    /\ w.pc = "complete"
    /\ UpdateJob(j, "completed", "Video generation completed", w.total, w.total, j,
                 w.rendered_clip_count, BuildImageSourceReport(w.image_source_counts))
    /\ SetWorker(j, k, [w EXCEPT !.pc = "finally"])
    /\ UNCHANGED <<payloads, cancel_flags, diskVars, ACTIVE_RUNNERS, http, envVars, sceneVars, callVars>>

\* lines 2260-2271: except Exception, store failed
WorkerExcept(j, k) ==
    LET w == W(j, k) IN
    /\ w.pc = "except"
    /\ UpdateJob(j, "failed", "Video generation failed", 0, 0, "",
                 w.rendered_clip_count, BuildImageSourceReport(w.image_source_counts))
    /\ SetWorker(j, k, [w EXCEPT !.pc = "finally"])
    /\ UNCHANGED <<payloads, cancel_flags, diskVars, ACTIVE_RUNNERS, http, envVars, sceneVars, callVars>>

\* faulty variant: the run ends without clear_cancel
WorkerFinallyKeepsFlag(j, k) ==
    /\ W(j, k).pc = "finally"
    /\ SetWorker(j, k, [W(j, k) EXCEPT !.pc = "exit"])
    /\ UNCHANGED <<storeVars, diskVars, ACTIVE_RUNNERS, http, envVars, sceneVars, callVars>>

\* lines 2272-2273: finally, clear_cancel
WorkerFinally(j, k) ==
    /\ W(j, k).pc = "finally"
    /\ cancel_flags' = cancel_flags \ {j}
    /\ SetWorker(j, k, [W(j, k) EXCEPT !.pc = "exit"])
    /\ UNCHANGED <<jobs, payloads, updated_order, created_order, diskVars,
                   ACTIVE_RUNNERS, http, envVars, sceneVars, callVars>>

\* lines 2289-2291: the runner's finally discards the id and the thread ends
WorkerExit(j, k) ==
    /\ W(j, k).pc = "exit"
    /\ ACTIVE_RUNNERS' = ACTIVE_RUNNERS \ {j}
    /\ SetWorker(j, k, IdleWorker)
    /\ UNCHANGED <<storeVars, diskVars, http, envVars, sceneVars, callVars>>

WorkerStep(j, k) ==
    \/ WorkerBegin(j, k)
    \/ WorkerSegmentOk(j, k)
    \/ WorkerCancelAtTop(j, k)
    \/ WorkerIterate(j, k)
    \/ WorkerSkipClip(j, k)
    \/ WorkerPromptTts(j, k)
    \/ \E source \in ImageOutcomes : WorkerImage(j, k, source)
    \/ WorkerRender(j, k)
    \/ WorkerRenderStored(j, k)
    \/ WorkerCancelAfterLoop(j, k)
    \/ WorkerFinalExists(j, k)
    \/ WorkerComposeBegin(j, k)
    \/ \E size \in ComposedSizes : WorkerCompose(j, k, size)
    \/ WorkerComposeMissingClip(j, k)
    \/ WorkerCancelAfterCompose(j, k)
    \/ WorkerNotCancelledAfterCompose(j, k)
    \/ WorkerComplete(j, k)
    \/ WorkerExcept(j, k)
    \/ WorkerFinally(j, k)
    \/ WorkerExit(j, k)

\* a collaborator call of the worker raises
WorkerFault(j, k) ==
    \/ WorkerSegmentFail(j, k)
    \/ WorkerImageFail(j, k)
    \/ \E left \in BOOLEAN : WorkerRenderFail(j, k, left)
    \/ \E size \in ComposedSizes \cup {final_size[j]} : WorkerComposeFail(j, k, size)

\* ----------------------------------------------------------------- cancel_job
\* JobStore.cancel: no row, no flag (returns False); otherwise the flag is set.
CancelJobFlag(j) ==
    /\ http.op = "none"
    /\ j \in used_ids
    /\ IF jobs[j].status = "none"
       THEN UNCHANGED <<cancel_flags, http>>
       ELSE /\ cancel_flags' = cancel_flags \cup {j}
            /\ http' = [IdleHttp EXCEPT !.op = "cancel", !.pc = "get", !.job = j]
    /\ UNCHANGED <<jobs, payloads, updated_order, created_order, diskVars,
                   ACTIVE_RUNNERS, worker, envVars, sceneVars, callVars>>

\* line 2339: current = job_store.get(job_id)
CancelJobGet(j) ==
    /\ http.op = "cancel" /\ http.pc = "get" /\ http.job = j
    /\ http' = [http EXCEPT !.pc = "set", !.cur = jobs[j]]
    /\ UNCHANGED <<storeVars, diskVars, ACTIVE_RUNNERS, worker, envVars, sceneVars, callVars>>

\* lines 2340-2355: the row cancel_job stores (no image_source_report is passed)
CancelledRow(cur) ==
    [status |-> "cancelled", message |-> "Cancel request accepted, stopping",
     current_segment |-> cur.current_segment, total_segments |-> cur.total_segments,
     output_video_path |-> cur.output_video_path, clip_count |-> cur.clip_count,
     image_source_report |-> NoReport]

CancelJobSet(j) ==
    /\ http.op = "cancel" /\ http.pc = "set" /\ http.job = j
    /\ IF http.cur.status \in {"queued", "running"}
       THEN JobStoreSet(j, CancelledRow(http.cur))
       ELSE UNCHANGED <<jobs, updated_order, created_order>>
    /\ http' = IdleHttp
    /\ UNCHANGED <<payloads, cancel_flags, diskVars, ACTIVE_RUNNERS, worker, envVars, sceneVars, callVars>>

\* ----------------------------------------------------------------- resume_job
\* lines 2360-2365: get; not_found and already_completed return at once
ResumeJobGet(j) ==
    /\ http.op = "none"
    /\ j \in used_ids
    /\ http' = IF jobs[j].status \in {"none", "completed"} THEN IdleHttp
               ELSE [IdleHttp EXCEPT !.op = "resume", !.pc = "payload", !.job = j,
                                     !.cur = jobs[j]]
    /\ UNCHANGED <<storeVars, diskVars, ACTIVE_RUNNERS, worker, envVars, sceneVars, callVars>>

\* lines 2367-2381: the payload row is missing, store failed
ResumeJobPayloadMissing(j) ==
    /\ http.op = "resume" /\ http.pc = "payload" /\ http.job = j
    /\ ~payloads[j].present
    /\ UpdateJob(j, "failed", "Job payload missing, cannot resume",
                 http.cur.current_segment, http.cur.total_segments,
                 http.cur.output_video_path, http.cur.clip_count, NoReport)
    /\ http' = IdleHttp
    /\ UNCHANGED <<payloads, cancel_flags, diskVars, ACTIVE_RUNNERS, worker, envVars, sceneVars, callVars>>

\* lines 2383-2386: save_payload with the effective base url, clear_cancel
ResumeJobPrepare(j, u) ==
    /\ http.op = "resume" /\ http.pc = "payload" /\ http.job = j
    /\ payloads[j].present
    /\ LET effective_base_url == IF u # "" THEN u ELSE payloads[j].base_url IN
       /\ payloads' = [payloads EXCEPT ![j].base_url = effective_base_url]
       /\ http' = [http EXCEPT !.pc = "queue", !.segments = payloads[j].segments,
                               !.base_url = effective_base_url]
    /\ cancel_flags' = cancel_flags \ {j}
    /\ UNCHANGED <<jobs, updated_order, created_order, diskVars, ACTIVE_RUNNERS,
                   worker, envVars, sceneVars, callVars>>

\* lines 2388-2399: store queued with the counters of the row read at the start
ResumeJobQueue(j) ==
    /\ http.op = "resume" /\ http.pc = "queue" /\ http.job = j
    /\ UpdateJob(j, "queued", "Resume requested, continue from checkpoint",
                 http.cur.current_segment, http.cur.total_segments,
                 http.cur.output_video_path, http.cur.clip_count, NoReport)
    /\ http' = [http EXCEPT !.pc = "start"]
    /\ UNCHANGED <<payloads, cancel_flags, diskVars, ACTIVE_RUNNERS, worker, envVars, sceneVars, callVars>>

\* lines 2401-2404
ResumeJobStart(j) ==
    /\ http.op = "resume" /\ http.pc = "start" /\ http.job = j
    /\ StartJobRunner(j, http.segments, http.base_url)
    /\ http' = IdleHttp
    /\ UNCHANGED <<storeVars, diskVars, envVars, sceneVars, callVars>>

\* ------------------------------------------------- main.py: status and delete
\* _build_disk_job_status: a completed row built from the output directory
DiskJobStatus(j) ==
    [status |-> "completed", message |-> "Recovered from output directory",
     current_segment |-> Cardinality(clips[j]), total_segments |-> Cardinality(clips[j]),
     output_video_path |-> j, clip_count |-> Cardinality(clips[j]),
     image_source_report |-> NoReport]

DiskRecoverable(j) == final_size[j] # Absent /\ ~(final_size[j] < MinFinalBytes)

\* faulty variant: a queued or running row is replaced as well
ResolveStoresDiskOverActive(j) ==
    /\ DiskRecoverable(j)
    /\ \/ jobs[j].status = "none"
       \/ jobs[j].status \in {"failed", "cancelled"}
       \/ jobs[j].output_video_path = ""

\* _resolve_job_status, line 239: when the disk row replaces the stored one
ResolveStoresDisk(j) ==
    /\ ~IsIncomplete(jobs[j])
    /\ DiskRecoverable(j)
    /\ \/ jobs[j].status = "none"
       \/ jobs[j].status \in {"failed", "cancelled"}
       \/ jobs[j].output_video_path = ""

\* the status _resolve_job_status returns
ResolvedStatus(j) ==
    IF ResolveStoresDisk(j) THEN DiskJobStatus(j) ELSE jobs[j]

ResolveJobStatus(j) ==
    IF ResolveStoresDisk(j) THEN JobStoreSet(j, DiskJobStatus(j))
    ELSE UNCHANGED <<jobs, updated_order, created_order>>

\* GET /api/jobs/{job_id}
GetJobStatus(j) ==
    /\ http.op = "none"
    /\ j \in used_ids
    /\ ResolveJobStatus(j)
    /\ UNCHANGED <<payloads, cancel_flags, diskVars, procVars, envVars, sceneVars, callVars>>

\* One call of _resolve_job_status(j): the row it read, and what it returned.
ResolveJobStatusCall(j) ==
    /\ call = NoCall
    /\ http.op = "none"
    /\ ResolveJobStatus(j)
    /\ call' = [op |-> "_resolve_job_status", job |-> j, before |-> jobs[j],
                result |-> ResolvedStatus(j)]
    /\ UNCHANGED <<payloads, cancel_flags, diskVars, procVars, envVars, sceneVars>>

\* DELETE /api/jobs/{job_id}, lines 738-740: refused for an active job
DeleteJobResolve(j) ==
    /\ http.op = "none"
    /\ j \in used_ids
    /\ ResolveJobStatus(j)
    /\ http' = IF IsIncomplete(ResolvedStatus(j)) THEN IdleHttp
               ELSE [IdleHttp EXCEPT !.op = "delete", !.pc = "artifacts", !.job = j]
    /\ UNCHANGED <<payloads, cancel_flags, diskVars, ACTIVE_RUNNERS, worker,
                   envVars, sceneVars, callVars>>

\* _delete_job_artifacts: temp/<job> and output/<job>.mp4 are removed
DeleteJobArtifacts(j) ==
    /\ http.op = "delete" /\ http.pc = "artifacts" /\ http.job = j
    /\ clips' = [clips EXCEPT ![j] = {}]
    /\ whole_clips' = [whole_clips EXCEPT ![j] = {}]
    /\ final_size' = [final_size EXCEPT ![j] = Absent]
    /\ http' = [http EXCEPT !.pc = "row"]
    /\ UNCHANGED <<storeVars, ACTIVE_RUNNERS, worker, envVars, sceneVars, callVars>>

\* JobStore.delete_job: the three rows go in one transaction
DeleteJobRow(j) ==
    /\ http.op = "delete" /\ http.pc = "row" /\ http.job = j
    /\ JobStoreDeleteJob(j)
    /\ http' = IdleHttp
    /\ UNCHANGED <<diskVars, ACTIVE_RUNNERS, worker, envVars, sceneVars, callVars>>

\* DELETE /api/workspace/final-videos/{filename}, lines 868-870: the job id is
\* the stem of the file name; refused (409) while the stored row is active
DeleteFinalVideoGet(j) ==
    /\ http.op = "none"
    /\ j \in used_ids
    /\ http' = IF IsIncomplete(jobs[j]) THEN IdleHttp
               ELSE [IdleHttp EXCEPT !.op = "delete_final", !.pc = "artifacts", !.job = j]
    /\ UNCHANGED <<storeVars, diskVars, ACTIVE_RUNNERS, worker, envVars, sceneVars, callVars>>

\* lines 872-876: _safe_unlink of output/<job>.mp4, its thumbnail and temp/<job>
DeleteFinalVideoUnlink(j) ==
    /\ http.op = "delete_final" /\ http.pc = "artifacts" /\ http.job = j
    /\ final_size' = [final_size EXCEPT ![j] = Absent]
    /\ clips' = [clips EXCEPT ![j] = {}]
    /\ whole_clips' = [whole_clips EXCEPT ![j] = {}]
    /\ http' = [http EXCEPT !.pc = "row"]
    /\ UNCHANGED <<storeVars, ACTIVE_RUNNERS, worker, envVars, sceneVars, callVars>>

\* line 877: job_store.delete_job(job_id)
DeleteFinalVideoRow(j) ==
    /\ http.op = "delete_final" /\ http.pc = "row" /\ http.job = j
    /\ JobStoreDeleteJob(j)
    /\ http' = IdleHttp
    /\ UNCHANGED <<diskVars, ACTIVE_RUNNERS, worker, envVars, sceneVars, callVars>>

\* ------------------------------------------------- crash and startup recovery
\* The process dies: every thread and the active-runner set are gone, the
\* tables and the files stay.  On restart the startup hook calls
\* resume_interrupted_jobs, which lists the incomplete jobs.
CrashEffect ==
    /\ ACTIVE_RUNNERS' = {}
    /\ worker' = [j \in JobIds |-> [k \in Slots |-> IdleWorker]]
    /\ http' = [IdleHttp EXCEPT !.op = "startup", !.todo = list_incomplete_job_ids]
    /\ UNCHANGED <<storeVars, diskVars, used_ids, sceneVars, callVars>>

CrashAndRestart == CrashEffect /\ UNCHANGED crashes

\* the same, at most MaxCrashes times
CrashAndRestartBounded ==
    /\ crashes < MaxCrashes
    /\ crashes' = crashes + 1
    /\ CrashEffect

AfterRecovery == [http EXCEPT !.todo = Tail(http.todo)]

\* lines 2309-2312: no payload, store failed and go on
RecoverPayloadMissing(j) ==
    /\ http.op = "startup" /\ http.todo # <<>> /\ j = Head(http.todo)
    /\ ~payloads[j].present
    /\ UpdateJob(j, "failed", "Job payload missing, cannot resume", 0, 0, "", -1, NoReport)
    /\ http' = AfterRecovery
    /\ UNCHANGED <<payloads, cancel_flags, diskVars, ACTIVE_RUNNERS, worker, envVars, sceneVars, callVars>>

\* lines 2314-2332: a running row is put back to queued, then the runner starts
RecoverResume(j) ==
    /\ http.op = "startup" /\ http.todo # <<>> /\ j = Head(http.todo)
    /\ payloads[j].present
    /\ IF jobs[j].status = "running"
       THEN UpdateJob(j, "queued", "Detected interrupted job, resuming from checkpoint",
                      jobs[j].current_segment, jobs[j].total_segments,
                      jobs[j].output_video_path, jobs[j].clip_count, NoReport)
       ELSE UNCHANGED <<jobs, updated_order, created_order>>
    /\ StartJobRunner(j, payloads[j].segments, payloads[j].base_url)
    /\ http' = AfterRecovery
    /\ UNCHANGED <<payloads, cancel_flags, diskVars, envVars, sceneVars, callVars>>

\* the loop is over, the startup hook returns and requests are served
RecoverDone ==
    /\ http.op = "startup" /\ http.todo = <<>>
    /\ http' = IdleHttp
    /\ UNCHANGED <<storeVars, diskVars, ACTIVE_RUNNERS, worker, envVars, sceneVars, callVars>>

\* ------------------------------------------ the scene cache and the deque
\* The resolver of one run, segment after segment.  Which entries match a
\* segment is left open: a lookup may return any entry its filter lets through.
FallbackLookups == {"fallback-llm", "fallback-character-cache",
                    "fallback-scene-only-cache", "fallback-random-cache"}

\* set(recent_scene_entry_ids), then {str(item) for item in ... if str(item)}
blocked_ids(ring) == {ring[i] : i \in 1..Len(ring)} \ {NoEntry}

\* faulty variant: the blocked ids are not looked at
LookupCandidatesAll(entries, blocked) == entries

\* the filter at the head of every lookup: entry_id in blocked_ids -> continue
LookupCandidates(entries, blocked) ==
    {e \in entries : ~(e # NoEntry /\ e \in blocked)}

\* deque(maxlen=lookback_scenes if lookback_scenes > 0 else None).append
DequeAppend(ring, maxlen, id) ==
    IF maxlen > 0 /\ Len(ring) >= maxlen
    THEN Append(Tail(ring), id) ELSE Append(ring, id)

\* uuid4().hex of save_scene_image_cache_entry
FreshEntryId == CHOOSE e \in EntryIds \ scene_entries :
                    \A x \in EntryIds \ scene_entries : e <= x

\* lines 1943-1945: no_repeat_window = max(0, int(...)), the deque is created
SceneRunBegin(window, reuse) ==
    /\ scene_run.pc = "idle"
    /\ scene_run' = [IdleSceneRun EXCEPT
            !.pc = "loop",
            !.lookback_scenes = IF window > 0 THEN window ELSE 0,
            !.enable_scene_image_reuse = reuse]
    /\ recent_scene_entry_ids' = <<>>
    /\ UNCHANGED <<scene_entries, jobVars, callVars>>

\* lines 2110-2124: the loop unpacks the resolver's result and appends the id
RecordSegmentImage(source, id) ==
    /\ recent_scene_entry_ids' =
            IF scene_run.lookback_scenes > 0 /\ id # NoEntry
            THEN DequeAppend(recent_scene_entry_ids, scene_run.lookback_scenes, id)
            ELSE recent_scene_entry_ids
    /\ scene_run' = [scene_run EXCEPT
            !.index = @ + 1,
            !.image_source = source,
            !.reused_entry_id = id,
            !.earlier = scene_run.recorded,
            !.recorded = IF id # NoEntry THEN Append(@, id) ELSE @]

InSceneLoop == scene_run.pc = "loop" /\ scene_run.index < MaxScenes

\* _resolve_segment_image, lines 1777-1797: the strict lookup returns an entry
SegmentImageCache(e) ==
    /\ InSceneLoop
    /\ scene_run.enable_scene_image_reuse
    /\ e \in LookupCandidates(scene_entries, blocked_ids(recent_scene_entry_ids))
    /\ RecordSegmentImage("cache", e)
    /\ UNCHANGED <<scene_entries, jobVars, callVars>>

\* lines 1799-1808 and 1889-1897: the image is generated, and saved to the
\* cache under a fresh id when reuse is enabled and the save succeeds
SegmentImageGenerated(saved) ==
    /\ InSceneLoop
    /\ IF saved /\ scene_run.enable_scene_image_reuse /\ scene_entries # EntryIds
       THEN /\ scene_entries' = scene_entries \cup {FreshEntryId}
            /\ RecordSegmentImage("generated", FreshEntryId)
       ELSE /\ scene_entries' = scene_entries
            /\ RecordSegmentImage("generated", NoEntry)
    /\ UNCHANGED <<jobVars, callVars>>

\* lines 1809-1885: generation failed and one of the fallback lookups
\* (lenient LLM, random same-character, scene-only, random) returns an entry
SegmentImageFallback(kind, e) ==
    /\ InSceneLoop
    /\ e \in LookupCandidates(scene_entries, blocked_ids(recent_scene_entry_ids))
    /\ RecordSegmentImage(kind, e)
    /\ UNCHANGED <<scene_entries, jobVars, callVars>>

\* lines 1846-1856: generation failed, the character's reference image is used
SegmentImageFallbackReference ==
    /\ InSceneLoop
    /\ RecordSegmentImage("fallback-reference", NoEntry)
    /\ UNCHANGED <<scene_entries, jobVars, callVars>>

\* the run is over (the last segment, a cancel, an exception): the deque goes
\* with it
SceneRunEnd ==
    /\ scene_run.pc = "loop"
    /\ scene_run' = IdleSceneRun
    /\ recent_scene_entry_ids' = <<>>
    /\ UNCHANGED <<scene_entries, jobVars, callVars>>

\* ------------------------------------------------------ scene cache lookups
\* Reference images: a path and the id _ref_image_id_from_path derives from it
\* (the suffix of the stem after the last "_").
RefImageIds == {"a", "b"}
RefImagePaths == {"x_a", "y_a", "y_b"}
RefImageIdFromPath(path) == IF path = "y_b" THEN "b" ELSE "a"

SeqRange(seq) == {seq[i] : i \in 1..Len(seq)}

\* _profile_reference_image_ids: the ids, or the ids derived from the paths
ProfileReferenceImageIds(payload) ==
    IF payload.reference_image_ids # <<>>
    THEN payload.reference_image_ids
    ELSE [i \in 1..Len(payload.reference_image_paths) |->
            RefImageIdFromPath(payload.reference_image_paths[i])]

ProfileReferenceImagePaths(payload) == payload.reference_image_paths

\* _character_key_from_descriptor: md5 of the first id, else of the first
\* path; "" without a reference.  The digest is kept as its seed.
CharacterKeyFromDescriptor(descriptor) ==
    IF ProfileReferenceImageIds(descriptor) # <<>>
    THEN Head(ProfileReferenceImageIds(descriptor))
    ELSE IF ProfileReferenceImagePaths(descriptor) # <<>>
         THEN Head(ProfileReferenceImagePaths(descriptor))
         ELSE ""

\* _build_match_profile, the fields the character checks read
BuildMatchProfile(descriptor) ==
    [reference_image_ids |-> ProfileReferenceImageIds(descriptor),
     reference_image_paths |-> ProfileReferenceImagePaths(descriptor),
     character_key |-> CharacterKeyFromDescriptor(descriptor)]

\* the profile of "{}": the selector named an id that is no candidate
EmptyProfile == [reference_image_ids |-> <<>>, reference_image_paths |-> <<>>,
                 character_key |-> ""]

\* The rows of scene_entries the lookups are tried on: a character with id and
\* path, another character, a scene without a character, a row stored with a
\* path only.
SceneCatalog ==
    [e \in 1..4 |->
        CASE e = 1 -> [reference_image_ids |-> <<"a">>, reference_image_paths |-> <<"x_a">>]
          [] e = 2 -> [reference_image_ids |-> <<"b">>, reference_image_paths |-> <<"y_b">>]
          [] e = 3 -> [reference_image_ids |-> <<>>, reference_image_paths |-> <<>>]
          [] e = 4 -> [reference_image_ids |-> <<>>, reference_image_paths |-> <<"y_a">>]]
CatalogIds == DOMAIN SceneCatalog

\* _entry_match_profile of a migrated row
EntryMatchProfile(e) == BuildMatchProfile(SceneCatalog[e])

\* the descriptors a lookup is made for
TargetDescriptors ==
    [reference_image_ids : {<<>>, <<"a">>, <<"b">>},
     reference_image_paths : {<<>>, <<"x_a">>, <<"y_b">>}]

\* What the text of a row is to the target's, for _text_match_verdict and the
\* exact action/location comparison: "dead" no image file, "no" an action,
\* location or scene mismatch, "match" a match, "exact" the same action and
\* location text.
TextVerdicts == {"dead", "no", "match", "exact"}

\* The selector's reply: selected_id (0: no reply, no key, should_reuse false),
\* character_match, and the other flags the mode asks for taken together.
LlmReplies == [selected_id : {0} \cup CatalogIds, character_match : BOOLEAN, semantic : BOOLEAN]

\* _character_match
CharacterMatch(target_profile, candidate_profile) ==
    \/ SeqRange(target_profile.reference_image_ids)
         \cap SeqRange(candidate_profile.reference_image_ids) # {}
    \/ SeqRange(target_profile.reference_image_paths)
         \cap SeqRange(candidate_profile.reference_image_paths) # {}
    \/ /\ target_profile.character_key # ""
       /\ target_profile.character_key = candidate_profile.character_key

\* _load_entries_from_db_for_reference_ids / _paths, and the rule that an empty
\* answer keeps every row
LoadEntries(target_profile, cache) ==
    LET ids == SeqRange(target_profile.reference_image_ids)
        paths == SeqRange(target_profile.reference_image_paths)
        by_ids == {e \in cache :
                     SeqRange(EntryMatchProfile(e).reference_image_ids) \cap ids # {}}
        by_paths == {e \in cache :
                       SeqRange(EntryMatchProfile(e).reference_image_paths) \cap paths # {}}
    IN IF ids # {} THEN (IF by_ids # {} THEN by_ids ELSE cache)
       ELSE IF paths # {} THEN (IF by_paths # {} THEN by_paths ELSE cache)
       ELSE cache

LlmAcceptsAnyReference(target_profile, candidates, reply, strict) ==
    IF candidates = {} \/ reply.selected_id = 0 THEN 0
    ELSE IF ~reply.character_match \/ ~reply.semantic THEN 0
    ELSE reply.selected_id

\* _llm_match_candidate: the id the selector's reply stands for, 0 for None
LlmMatchCandidate(target_profile, candidates, reply, strict) ==
    IF candidates = {} \/ reply.selected_id = 0 THEN 0
    ELSE LET selected_profile == IF reply.selected_id \in candidates
                                 THEN EntryMatchProfile(reply.selected_id)
                                 ELSE EmptyProfile
             target_ref_ids == SeqRange(target_profile.reference_image_ids)
             selected_ref_ids == SeqRange(selected_profile.reference_image_ids)
             target_ref_paths == SeqRange(target_profile.reference_image_paths)
             selected_ref_paths == SeqRange(selected_profile.reference_image_paths)
         IN IF /\ target_ref_ids # {} /\ selected_ref_ids # {}
               /\ target_ref_ids \cap selected_ref_ids = {} THEN 0
            ELSE IF /\ target_ref_paths # {} /\ selected_ref_paths # {}
                    /\ target_ref_paths \cap selected_ref_paths = {} THEN 0
            ELSE IF ~reply.character_match \/ ~reply.semantic THEN 0
            ELSE reply.selected_id

\* find_reusable_scene_image: the entry ids it can return, 0 for None.  The
\* rank among rows of equal standing comes from token counts, which the
\* verdicts stand for: any of the exact rows can be the best one.
FindReusableSceneImage(target, cache, verdict, precheck, reply) ==
    LET target_profile == BuildMatchProfile(target)
        entries == LoadEntries(target_profile, cache)
        viable == {e \in entries :
                     /\ verdict[e] \in {"match", "exact"}
                     /\ CharacterMatch(target_profile, EntryMatchProfile(e))}
        exact_candidates == {e \in viable : verdict[e] = "exact"}
        selected_id == LlmMatchCandidate(target_profile, viable, reply, TRUE)
    IN IF viable = {} THEN {0}
       ELSE IF exact_candidates # {} THEN exact_candidates
       ELSE IF ~precheck THEN {0}
       ELSE IF selected_id \in viable THEN {selected_id}
       ELSE {0}

\* force_llm_select_scene_image: the entry id it returns, 0 for None
ForceLlmSelectSceneImage(target, cache, verdict, reply) ==
    LET target_profile == BuildMatchProfile(target)
        entries == LoadEntries(target_profile, cache)
        candidates == {e \in entries : verdict[e] # "dead"}
        selected_id == LlmMatchCandidate(target_profile, candidates, reply, FALSE)
    IN IF candidates = {} THEN 0
       ELSE IF selected_id \in candidates THEN selected_id
       ELSE 0

\* a strict lookup is made
StrictLookup(target, cache, verdict, precheck, reply) ==
    /\ call = NoCall
    /\ \E entry_id \in FindReusableSceneImage(target, cache, verdict, precheck, reply) :
         call' = [op |-> "find_reusable_scene_image", target |-> target,
                  cache |-> cache, verdict |-> verdict, reply |-> reply,
                  entry_id |-> entry_id]
    /\ UNCHANGED <<jobVars, sceneVars>>

\* a lenient lookup is made
LenientLookup(target, cache, verdict, reply) ==
    /\ call = NoCall
    /\ call' = [op |-> "force_llm_select_scene_image", target |-> target,
                cache |-> cache, verdict |-> verdict, reply |-> reply,
                entry_id |-> ForceLlmSelectSceneImage(target, cache, verdict, reply)]
    /\ UNCHANGED <<jobVars, sceneVars>>

\* the caches and the verdicts of their rows
LookupInputs ==
    {x \in [cache : SUBSET CatalogIds, verdict : [CatalogIds -> TextVerdicts]] :
        \A e \in CatalogIds \ x.cache : x.verdict[e] = "dead"}

StrictLookupStep ==
    /\ call = NoCall
    /\ \E target \in TargetDescriptors, x \in LookupInputs, reply \in LlmReplies,
          precheck \in BOOLEAN :
            StrictLookup(target, x.cache, x.verdict, precheck, reply)

LenientLookupStep ==
    /\ call = NoCall
    /\ \E target \in TargetDescriptors, x \in LookupInputs, reply \in LlmReplies :
            LenientLookup(target, x.cache, x.verdict, reply)

\* ---------------------------------------------------- _resolve_segment_image
\* What each fallback finds: the lenient pick, a cached image of the same
\* character, the character's reference file, a scene-only cached image, any
\* live cached image.
FallbackFinds == [FallbackLookups \cup {"fallback-reference"} -> BOOLEAN]

FallbackCascadeReferenceFirst(finds) ==
    IF finds["fallback-llm"] THEN "fallback-llm"
    ELSE IF finds["fallback-reference"] THEN "fallback-reference"
    ELSE IF finds["fallback-character-cache"] THEN "fallback-character-cache"
    ELSE IF finds["fallback-scene-only-cache"] THEN "fallback-scene-only-cache"
    ELSE IF finds["fallback-random-cache"] THEN "fallback-random-cache"
    ELSE ""

\* lines 1809-1886: the source label of the fallback taken, "" when all five
\* find nothing
FallbackCascade(finds) ==
    IF finds["fallback-llm"] THEN "fallback-llm"
    ELSE IF finds["fallback-character-cache"] THEN "fallback-character-cache"
    ELSE IF finds["fallback-reference"] THEN "fallback-reference"
    ELSE IF finds["fallback-scene-only-cache"] THEN "fallback-scene-only-cache"
    ELSE IF finds["fallback-random-cache"] THEN "fallback-random-cache"
    ELSE ""

\* _resolve_segment_image: the label returned, or the exception that leaves
\* it.  render_cached_image_to_output opens the file it is given and raises
\* when it cannot; nothing catches that.
ResolveSegmentImage(reuse, strict_hit, generated, finds, render_ok) ==
    IF reuse /\ strict_hit
    THEN (IF render_ok THEN [source |-> "cache", error |-> ""]
          ELSE [source |-> "", error |-> "OSError"])
    ELSE IF generated THEN [source |-> "generated", error |-> ""]
    ELSE IF FallbackCascade(finds) = ""
         THEN [source |-> "", error |-> "ImageGenerationError"]
         ELSE IF render_ok THEN [source |-> FallbackCascade(finds), error |-> ""]
              ELSE [source |-> "", error |-> "OSError"]

\* the resolver is called for a segment
ResolveSegmentImageStep ==
    /\ call = NoCall
    /\ \E reuse \in BOOLEAN, strict_hit \in BOOLEAN, generated \in BOOLEAN,
          finds \in FallbackFinds, render_ok \in BOOLEAN :
         call' = [op |-> "_resolve_segment_image", reuse |-> reuse,
                  strict_hit |-> strict_hit, generated |-> generated,
                  finds |-> finds, render_ok |-> render_ok,
                  result |-> ResolveSegmentImage(reuse, strict_hit, generated,
                                                 finds, render_ok)]
    /\ UNCHANGED <<jobVars, sceneVars>>


\* ------------------------------------------- the strict lookup, by its hints
\* The action and location hints of a descriptor after normalization.  The
\* descriptors here carry one word per hint, shorter than the eight and six
\* characters of the containment tests, no keywords and no segment text other
\* than the action hint.  The action hint is never empty: it defaults to the
\* segment text (lines 482-486), and no segmenter yields a blank segment.
ActionHints == {"run", "sit"}
LocationHints == {"", "park"}
HintTexts == [action_hint : ActionHints, location_hint : LocationHints]

\* _tokenize_ordered of one hint
HintTokens(hint) == IF hint = "" THEN {} ELSE {hint}

\* _common_token_count
CommonTokenCount(left, right) == Cardinality(left \cap right)

\* lines 1042-1049: same_action and same_location
SameActionAndLocation(target_text, item_text) ==
    /\ target_text.action_hint # ""
    /\ target_text.action_hint = item_text.action_hint
    /\ \/ (target_text.location_hint = "" /\ item_text.location_hint = "")
       \/ /\ target_text.location_hint # ""
          /\ item_text.location_hint # ""
          /\ target_text.location_hint = item_text.location_hint

\* _text_match_verdict after its character test: scene_match follows from
\* action_match
TextMatches(target_text, candidate_text) ==
    LET action_common == CommonTokenCount(HintTokens(target_text.action_hint),
                                          HintTokens(candidate_text.action_hint))
        location_common == CommonTokenCount(HintTokens(target_text.location_hint),
                                            HintTokens(candidate_text.location_hint))
        exact_action == /\ target_text.action_hint # ""
                        /\ candidate_text.action_hint # ""
                        /\ target_text.action_hint = candidate_text.action_hint
        action_match == exact_action \/ action_common >= 2
        exact_location == /\ target_text.location_hint # ""
                          /\ candidate_text.location_hint # ""
                          /\ target_text.location_hint = candidate_text.location_hint
        require_location_match == /\ target_text.location_hint # ""
                                  /\ candidate_text.location_hint # ""
        location_match == ~require_location_match \/ exact_location \/ location_common >= 1
    IN action_match /\ (require_location_match => location_match)

\* faulty variant: a row of the same action and location is an ordinary match
TextVerdictNeverExact(target_text, candidate_text, usable) ==
    IF ~usable THEN "dead"
    ELSE IF ~TextMatches(target_text, candidate_text) THEN "no"
    ELSE "match"

\* What a row is to the target: "dead" when it is blocked, fails the schema
\* migration or has no image file (lines 1002-1013), "no" when
\* _text_match_verdict rejects it, "exact" by lines 1042-1049.
TextVerdict(target_text, candidate_text, usable) ==
    IF ~usable THEN "dead"
    ELSE IF ~TextMatches(target_text, candidate_text) THEN "no"
    ELSE IF SameActionAndLocation(target_text, candidate_text) THEN "exact"
    ELSE "match"

\* find_reusable_scene_image: where the lookup ends before any reply of the
\* selector is read: "none" no viable row, "text-exact" lines 1051-1063,
\* "precheck" the thresholds of lines 1088-1092 not met, "llm" the selector
\* is called (line 1094)
StrictLookupPath(target, cache, verdict, precheck) ==
    LET target_profile == BuildMatchProfile(target)
        entries == LoadEntries(target_profile, cache)
        viable == {e \in entries :
                     /\ verdict[e] \in {"match", "exact"}
                     /\ CharacterMatch(target_profile, EntryMatchProfile(e))}
    IN IF viable = {} THEN "none"
       ELSE IF \E e \in viable : verdict[e] = "exact" THEN "text-exact"
       ELSE IF ~precheck THEN "precheck"
       ELSE "llm"

\* the dict the lookup returns for entry_id (0: None)
StrictLookupResult(path, entry_id) ==
    IF entry_id = 0 THEN [entry_id |-> 0, match_type |-> "", confidence |-> 0]
    ELSE IF path = "text-exact"
    THEN [entry_id |-> entry_id, match_type |-> "text-exact", confidence |-> 100]
    ELSE [entry_id |-> entry_id, match_type |-> "llm", confidence |-> 90]

\* the hints of the rows of the catalog: those of rows 1 and 4, which bind the
\* same reference image, vary
EntryTexts ==
    {texts \in [CatalogIds -> HintTexts] :
        \A e \in {2, 3} : texts[e] = [action_hint |-> "run", location_hint |-> "park"]}

\* the replies of a selector that confirms the character and the scene, and
\* picks no row or a row bound to reference image "a"
ConfirmingReplies ==
    {reply \in LlmReplies :
        reply.character_match /\ reply.semantic /\ reply.selected_id \in {0, 1, 4}}

\* The targets looked up are build_scene_descriptor's: they carry reference
\* paths and no ids of their own (lines 805-808), so that the ids are those of
\* the paths.  The caches: row 3, bound to no reference image, is in each and
\* usable.
LookupTargets == {target \in TargetDescriptors : target.reference_image_ids = <<>>}
LookupCaches == {cache \in SUBSET CatalogIds : 3 \in cache}

\* _resolve_segment_image with reuse enabled looks a descriptor up
StrictLookupByText(target, target_text, cache, usable, texts, precheck, reply, render_ok) ==
    LET verdict == [e \in CatalogIds |-> TextVerdict(target_text, texts[e], e \in usable)]
        path == StrictLookupPath(target, cache, verdict, precheck)
    IN /\ call = NoCall
       /\ \E entry_id \in FindReusableSceneImage(target, cache, verdict, precheck, reply) :
            call' = [op |-> "strict_lookup", target |-> target,
                     target_text |-> target_text, cache |-> cache,
                     usable |-> usable, texts |-> texts,
                     llm_consulted |-> (path = "llm"),
                     matched |-> StrictLookupResult(path, entry_id),
                     result |-> ResolveSegmentImage(TRUE, entry_id # 0, FALSE,
                                    [f \in FallbackLookups \cup {"fallback-reference"} |-> FALSE], render_ok)]
       /\ UNCHANGED <<jobVars, sceneVars>>

StrictLookupByTextStep ==
    /\ call = NoCall
    /\ \E target \in LookupTargets, target_text \in HintTexts,
          cache \in LookupCaches, texts \in EntryTexts,
          precheck \in BOOLEAN, reply \in ConfirmingReplies, render_ok \in BOOLEAN :
         \E usable \in {u \in SUBSET cache : 3 \in u} :
            StrictLookupByText(target, target_text, cache, usable, texts,
                               precheck, reply, render_ok)

TextLookupNext == StrictLookupByTextStep

TextLookupSpec == Init /\ [][TextLookupNext]_vars


\* ------------------------------------------------------------ _segment_text

\* _segment_text passes fixed_size=120: GenerateVideoRequest has no such field
SegmentTextFixedSize == 120
Max(a, b) == IF a >= b THEN a ELSE b

\* build_segment_request_signature: the digest is one to one with the JSON it
\* is taken of, and stands here as the packed values
BuildSegmentRequestSignature(text, method, sentences_per_segment, fixed_size, model_id) ==
    <<Strip(text), method, Max(1, sentences_per_segment), Max(20, fixed_size),
      Strip(model_id)>>

\* no signature in the request (None or "")
NoSignature == <<>>

\* a signature string: a digest with or without blanks around it
StripSignature(provided) == provided.digest

\* the precomputed vectors a request carries (<<>> also for None)
MaxPrecomputed == 2
PrecomputedVectors ==
    UNION {[1..n -> SegmentItems] : n \in 0..MaxPrecomputed}

\* _clean_segments: each item stripped, the empty ones dropped
RECURSIVE CleanSegments(_)
CleanSegments(items) ==
    IF items = <<>> THEN <<>>
    ELSE IF Strip(Head(items)) = "" THEN CleanSegments(Tail(items))
         ELSE <<Strip(Head(items))>> \o CleanSegments(Tail(items))

ResolvePrecomputedSegmentsAnySignature(text, method, sentences_per_segment, fixed_size, model_id, request_signature, precomputed_segments) ==
    IF StripSignature(request_signature) = NoSignature THEN <<>>
    ELSE CleanSegments(precomputed_segments)

\* resolve_precomputed_segments: the cleaned vector, <<>> for None
ResolvePrecomputedSegments(text, method, sentences_per_segment, fixed_size, model_id, request_signature, precomputed_segments) ==
    IF StripSignature(request_signature) = NoSignature THEN <<>>
    ELSE IF StripSignature(request_signature)
              # BuildSegmentRequestSignature(text, method, sentences_per_segment,
                                             fixed_size, model_id)
         THEN <<>>
         ELSE CleanSegments(precomputed_segments)

\* build_segment_plan: which segmenter ran on which text; segment_by_smart is
\* the one that calls the LLM
BuildSegmentPlan(text, method) ==
    [segmenter |-> method, text |-> text, llm_invoked |-> (method = "smart")]

NoPlan == [segmenter |-> "", text |-> "", llm_invoked |-> FALSE]

\* _segment_text
SegmentText(payload) ==
    LET precomputed ==
            ResolvePrecomputedSegments(payload.text, payload.segment_method,
                payload.sentences_per_segment, SegmentTextFixedSize, payload.model_id,
                payload.segment_request_signature, payload.precomputed_segments)
    IN IF precomputed # <<>>
       THEN [segments |-> precomputed,
             plan |-> IF payload.segment_method = "sentence"
                      THEN BuildSegmentPlan(payload.text, "sentence") ELSE NoPlan,
             from_plan |-> FALSE]
       ELSE [segments |-> <<>>,
             plan |-> BuildSegmentPlan(payload.text, payload.segment_method),
             from_plan |-> TRUE]

\* The signatures a client sends: none, or the one /api/segment gave it for a
\* text, a method and a fixed_size, with or without blanks around it.
ClientSignatures ==
    {[digest |-> NoSignature, padded |-> FALSE]} \cup
    {[digest |-> BuildSegmentRequestSignature(text, method, 2, fixed_size, ""),
      padded |-> padded] :
        text \in TextValues, method \in {"sentence", "smart"},
        fixed_size \in {SegmentTextFixedSize, 200}, padded \in BOOLEAN}

SegmentTextPayloads ==
    [text : TextValues, segment_method : {"sentence", "fixed", "smart"},
     sentences_per_segment : {2}, model_id : {""},
     segment_request_signature : ClientSignatures,
     precomputed_segments : PrecomputedVectors]

\* the segmentation step of a job
SegmentTextStep ==
    /\ call = NoCall
    /\ \E payload \in SegmentTextPayloads :
         call' = [op |-> "_segment_text", payload |-> payload,
                  result |-> SegmentText(payload)]
    /\ UNCHANGED <<jobVars, sceneVars>>


\* SegmentTextRequest.fixed_size is any integer of 20..1000 (models.py line
\* 70): the two ends, the default and one more
FixedSizes == {20, SegmentTextFixedSize, 200, 1000}

\* the segments of a plan: at least one, none of them blank
PlanVectors ==
    {items \in PrecomputedVectors :
        items # <<>> /\ \A i \in 1..Len(items) : Strip(items[i]) # ""}

\* POST /api/segment-text: the text stripped, then build_segment_plan with the
\* request's fixed_size; the response carries the plan's segments and signature
SegmentTextEndpoint(text, method, sentences_per_segment, fixed_size, model_id, segments) ==
    [request_signature |->
         [digest |-> BuildSegmentRequestSignature(Strip(text), method,
                         sentences_per_segment, fixed_size, model_id),
          padded |-> FALSE],
     segments |-> segments]

\* The client segments a text, then creates a job for the same text, method,
\* sentences_per_segment and model_id with what the response gave it.
SegmentTextThenJob(text, method, sentences_per_segment, fixed_size, model_id, segments) ==
    LET response == SegmentTextEndpoint(text, method, sentences_per_segment,
                                        fixed_size, model_id, segments)
        payload == [text |-> text, segment_method |-> method,
                    sentences_per_segment |-> sentences_per_segment,
                    model_id |-> model_id,
                    segment_request_signature |-> response.request_signature,
                    precomputed_segments |-> response.segments]
    IN /\ call = NoCall
       /\ call' = [op |-> "segment_text_then_job", fixed_size |-> fixed_size,
                   response |-> response, payload |-> payload,
                   result |-> SegmentText(payload)]
       /\ UNCHANGED <<jobVars, sceneVars>>

SegmentTextThenJobStep ==
    \E text \in TextValues, method \in {"sentence", "fixed", "smart"},
       sentences_per_segment \in {1, 2}, fixed_size \in FixedSizes,
       model_id \in {""}, segments \in PlanVectors :
        SegmentTextThenJob(text, method, sentences_per_segment, fixed_size,
                           model_id, segments)

SignatureNext == SegmentTextThenJobStep

SignatureSpec == Init /\ [][SignatureNext]_vars


\* ------------------------------------------- the segments of a run, run again
\* A segment is a piece of text: who cut it, from which text, and which piece.
ClientSegment(item) == [by |-> "client", text |-> item, index |-> 0]
ClientSegments(items) == [i \in 1..Len(items) |-> ClientSegment(items[i])]

\* segment_by_sentence_groups and segment_by_fixed read nothing but their
\* arguments: the same text gives the same pieces (two and one of them here)
SegmentBySentenceGroups(text) ==
    <<[by |-> "sentence", text |-> text, index |-> 1],
      [by |-> "sentence", text |-> text, index |-> 2]>>

SegmentByFixed(text) == <<[by |-> "fixed", text |-> text, index |-> 1]>>

\* What the chat completion answers to the segmentation prompt: an error or
\* an unparseable body, or any vector of segments (possibly empty).
LlmSegmentTexts == {"a", "b"}
LlmSegmentVectors ==
    UNION {[1..n -> {[by |-> "llm", text |-> t, index |-> 0] : t \in LlmSegmentTexts}] :
             n \in 0..MaxSegments}
LlmSegmentReplies == [ok : BOOLEAN, segments : LlmSegmentVectors]

\* segment_by_smart: without an API key, and when the call fails or yields no
\* segment, the sentence groups; otherwise the segments of the reply
SegmentBySmart(text, llm_api_key, reply) ==
    IF ~llm_api_key THEN SegmentBySentenceGroups(text)
    ELSE IF reply.ok /\ reply.segments # <<>> THEN reply.segments
    ELSE SegmentBySentenceGroups(text)

\* the segments of build_segment_plan's plan
PlanSegments(plan, llm_api_key, reply) ==
    IF plan.segmenter = "fixed" THEN SegmentByFixed(plan.text)
    ELSE IF plan.segmenter = "smart" THEN SegmentBySmart(plan.text, llm_api_key, reply)
    ELSE SegmentBySentenceGroups(plan.text)

\* line 1926: segments, sentence_count = await _segment_text(payload)
RunSegments(payload, llm_api_key, reply) ==
    LET segmented == SegmentText(payload)
    IN IF segmented.from_plan THEN PlanSegments(segmented.plan, llm_api_key, reply)
       ELSE ClientSegments(segmented.segments)

RunPayloads == {payload \in SegmentTextPayloads : payload.text = "s"}

\* The first run of a job: call then follows the job from run to run, with the
\* segments of the current run, those of the first run, and the text each
\* clip file on disk was rendered from.
FirstRunSegments ==
    /\ call = NoCall
    /\ \E payload \in RunPayloads, llm_api_key \in BOOLEAN, reply \in LlmSegmentReplies :
          call' = [op |-> "run_video_job", payload |-> payload,
                   llm_api_key |-> llm_api_key, run |-> 1,
                   segments |-> RunSegments(payload, llm_api_key, reply),
                   first |-> RunSegments(payload, llm_api_key, reply),
                   clips |-> <<>>]
    /\ UNCHANGED <<jobVars, sceneVars>>

\* One iteration of the loop: a clip that exists is skipped; the first missing
\* one is rendered from the segment of the current run with its index.
RunRendersClip ==
    /\ call.op = "run_video_job"
    /\ Len(call.clips) < Len(call.segments)
    /\ call' = [call EXCEPT !.clips = Append(@, call.segments[Len(call.clips) + 1])]
    /\ UNCHANGED <<jobVars, sceneVars>>

\* A resume or a recovery: run_video_job starts over on the stored payload.
NextRunSegments ==
    /\ call.op = "run_video_job"
    /\ call.run < MaxRuns
    /\ \E reply \in LlmSegmentReplies :
          call' = [call EXCEPT !.run = @ + 1,
                     !.segments = RunSegments(call.payload, call.llm_api_key, reply)]
    /\ UNCHANGED <<jobVars, sceneVars>>

SegmentRunsNext ==
    \/ FirstRunSegments
    \/ RunRendersClip
    \/ NextRunSegments

SegmentRunsSpec == Init /\ [][SegmentRunsNext]_vars

\* ------------------------------------------------ _sanitize_character_voices
\* voice_catalog.VOICE_INFOS: the ids, in catalog order
VOICE_INFOS == <<"zh-CN-YunxiNeural", "zh-CN-YunyangNeural", "zh-CN-YunjianNeural", "zh-CN-YunzeNeural", "zh-CN-XiaoxiaoNeural", "zh-CN-XiaoyiNeural", "zh-CN-XiaohanNeural", "zh-CN-XiaomengNeural", "zh-CN-XiaomoNeural", "zh-CN-XiaoruiNeural">>
NARRATOR_VOICE_ID == "zh-CN-YunxiNeural"
AvailableVoices == {VOICE_INFOS[i] : i \in 1..Len(VOICE_INFOS)}

\* recommend_voice(role, personality) with no gender hint, on the role texts
\* enumerated here (personality empty)
RoleTexts == {"supporting", "mentor"}
recommend_voice(role_text) ==
    IF role_text = "mentor" THEN "zh-CN-YunjianNeural" ELSE "zh-CN-YunxiNeural"

\* A character: the three fields the sanitizer reads.
CharacterVoiceIds == {"", NARRATOR_VOICE_ID, "zh-CN-XiaoyiNeural", " zh-CN-XiaoyiNeural ", "bogus"}
CharacterInputs == [voice_id : CharacterVoiceIds, importance : {1, 5}, role : RoleTexts]
FillerCharacter == [voice_id |-> "", importance |-> 1, role |-> "supporting"]
Fillers(k) == [i \in 1..k |-> FillerCharacter]
CharacterTails == {<<>>} \cup {<<a>> : a \in CharacterInputs} \cup {<<a, b>> : a, b \in CharacterInputs}
CharacterLists == {Fillers(k) \o tail : k \in 0..MaxFillers, tail \in CharacterTails}

\* sorted(characters, key=importance, reverse=True): the indexes, the sort
\* being stable
RECURSIVE PrioritizedFrom(_, _)
PrioritizedFrom(characters, left) ==
    IF left = {} THEN <<>>
    ELSE LET top == CHOOSE i \in left :
                      \A o \in left :
                          \/ characters[i].importance > characters[o].importance
                          \/ (characters[i].importance = characters[o].importance /\ i <= o)
         IN <<top>> \o PrioritizedFrom(characters, left \ {top})

Prioritized(characters) == PrioritizedFrom(characters, 1..Len(characters))

\* next((voice_id for voice_id in available if voice_id not in used), None)
FirstUnusedVoice(used) ==
    LET free == {i \in 1..Len(VOICE_INFOS) : VOICE_INFOS[i] \notin used}
    IN IF free = {} THEN ""
       ELSE VOICE_INFOS[CHOOSE i \in free : \A o \in free : i <= o]

\* lines 835-853: the voice one character leaves the loop with
SanitizedVoice(character, used, narrator_voice) ==
    LET current == Strip(character.voice_id)
        recommended == recommend_voice(character.role)
        fallback == FirstUnusedVoice(used)
    IN IF current # "" /\ current \notin used /\ current \in AvailableVoices
       THEN [voice_id |-> character.voice_id, used |-> used \cup {current}]
       ELSE IF recommended # "" /\ recommended \in AvailableVoices /\ recommended \notin used
       THEN [voice_id |-> recommended, used |-> used \cup {recommended}]
       ELSE IF fallback # ""
       THEN [voice_id |-> fallback, used |-> used \cup {fallback}]
       ELSE [voice_id |-> IF current \in AvailableVoices THEN current ELSE narrator_voice,
             used |-> used]

\* the for loop over the characters by priority
RECURSIVE SanitizeLoop(_, _, _, _)
SanitizeLoop(characters, order, used, narrator_voice) ==
    IF order = <<>> THEN characters
    ELSE LET i == Head(order)
             step == SanitizedVoice(characters[i], used, narrator_voice)
         IN SanitizeLoop([characters EXCEPT ![i].voice_id = step.voice_id],
                         Tail(order), step.used, narrator_voice)

\* _sanitize_character_voices(characters, narrator_voice)
SanitizeCharacterVoices(characters, narrator_voice) ==
    LET narrator == IF narrator_voice \in AvailableVoices THEN narrator_voice
                    ELSE VOICE_INFOS[1]
    IN SanitizeLoop(characters, Prioritized(characters), {narrator}, narrator)

SanitizeCharacterVoicesStep ==
    /\ call = NoCall
    /\ \E characters \in CharacterLists :
          call' = [op |-> "_sanitize_character_voices", characters |-> characters,
                   result |-> SanitizeCharacterVoices(characters, NARRATOR_VOICE_ID)]
    /\ UNCHANGED <<jobVars, sceneVars>>

\* ------------------------------------------------------------ synthesize_tts
\* Durations are in hundredths of a second.  A text is the number of blanks
\* it begins with, the number of characters from its first to its last
\* non-blank one, and the number of blanks it ends with.
EstimateFloor == 150
EstimatePerChar == 22
TtsTexts == [lead : {0, 1}, body : 0..MaxTextBody, trail : {0, 1}]
TextLen(text) == text.lead + text.body + text.trail

\* str.strip() on such a text: the body alone; a text without body is blanks
StripText(text) == [lead |-> 0, body |-> text.body, trail |-> 0]

\* faulty variant: no floor of 1.5 s
EstimateDurationPerCharOnly(text) == Max(TextLen(text), 1) * EstimatePerChar

\* _estimate_duration_by_text
EstimateDurationByText(text) == Max(Max(TextLen(text), 1) * EstimatePerChar, EstimateFloor)

\* What one attempt does: it fails (HTTP error, empty body, wrong content
\* type, empty file, timeout), or it writes a file whose duration
\* get_audio_duration reads as 3 s, or one it reads as 0.
TtsAttempts == {"fail", "readable", "unreadable"}
ReadDuration == 300

\* the duration kept for a file an attempt wrote (lines 59-61 and 74-76)
AttemptDuration(outcome, text_content) ==
    IF outcome = "readable" THEN ReadDuration ELSE EstimateDurationByText(text_content)

\* synthesize_tts(text, voice, output_path): the pair it returns, and how many
\* remote and local attempts it made
SynthesizeTts(text, tts_api_url, remote, local) ==
    LET text_content == StripText(text)
        remote_attempts == IF tts_api_url THEN 1 ELSE 0
        local_attempts == IF local[1] = "fail" THEN 2 ELSE 1
    IN IF text_content.body = 0
       THEN [path |-> "wav", duration |-> EstimateFloor, silent |-> TRUE,
             remote_attempts |-> 0, local_attempts |-> 0]
       ELSE IF tts_api_url /\ remote # "fail"
       THEN [path |-> "output_path", duration |-> AttemptDuration(remote, text_content),
             silent |-> FALSE, remote_attempts |-> 1, local_attempts |-> 0]
       ELSE IF local[1] # "fail"
       THEN [path |-> "output_path", duration |-> AttemptDuration(local[1], text_content),
             silent |-> FALSE, remote_attempts |-> remote_attempts, local_attempts |-> 1]
       ELSE IF local[2] # "fail"
       THEN [path |-> "output_path", duration |-> AttemptDuration(local[2], text_content),
             silent |-> FALSE, remote_attempts |-> remote_attempts, local_attempts |-> 2]
       ELSE [path |-> "wav", duration |-> EstimateDurationByText(text_content),
             silent |-> TRUE, remote_attempts |-> remote_attempts, local_attempts |-> 2]

SynthesizeTtsStep ==
    /\ call = NoCall
    /\ \E text \in TtsTexts, tts_api_url \in BOOLEAN, remote \in TtsAttempts,
          local \in [1..2 -> TtsAttempts] :
          call' = [op |-> "synthesize_tts", text |-> text, tts_api_url |-> tts_api_url,
                   remote |-> remote, local |-> local,
                   result |-> SynthesizeTts(text, tts_api_url, remote, local)]
    /\ UNCHANGED <<jobVars, sceneVars>>

\* ------------------------------------------------- the scene cache's tables
\* scene_entries and scene_entry_ref_bindings as save_scene_image_cache_entry
\* and ensure_scene_cache_paths leave them.  Every call holds _CACHE_LOCK from
\* its first statement on the tables to its commit, so a call is one step.
\* call holds the two tables.  A row of scene_entries is its id (a fresh uuid:
\* the number of the save), its created_at (the clock read by the save, which
\* goes forward from one save to the next) and the reference paths of its
\* descriptor.  save_scene_image_cache_entry passes keep=3000; the table is
\* cut at MaxKept rows here.  No index.json is left to migrate.
CachePaths == {"x_a", "y_b"}

\* _ensure_db_schema on a new database: both tables are empty
SceneCacheOpen ==
    /\ call = NoCall
    /\ call' = [op |-> "scene_cache", last |-> "open", entries |-> {}, bindings |-> {},
                saves |-> 0, saved |-> 0, inserted |-> {}]
    /\ UNCHANGED <<jobVars, sceneVars>>

\* the binding rows _sync_entry_bindings writes for an entry
EntryBindings(entry) == {[entry_id |-> entry.id, ref_path |-> p] : p \in entry.ref_paths}

\* _sync_entry_bindings
SyncEntryBindings(bindings, entry) ==
    {b \in bindings : b.entry_id # entry.id} \cup EntryBindings(entry)

\* faulty variant: the oldest rows are kept
PruneDbEntriesOldest(entries, keep) ==
    {e \in entries :
        Cardinality({o \in entries : o.created_at < e.created_at}) < Max(1, keep)}

\* _prune_db_entries: the rows past the first keep by created_at descending
\* are deleted, from scene_entries alone
PruneDbEntries(entries, keep) ==
    {e \in entries :
        Cardinality({o \in entries : o.created_at > e.created_at}) < Max(1, keep)}

\* _backfill_bindings_if_needed
BackfillBindingsIfNeeded(entries, bindings) ==
    IF entries = {} THEN bindings
    ELSE IF Cardinality(bindings) >= Cardinality(entries) THEN bindings
    ELSE UNION {EntryBindings(e) : e \in entries}

\* ensure_scene_cache_paths, as every lookup and every run calls it
EnsureSceneCachePaths ==
    /\ call.op = "scene_cache"
    /\ call' = [call EXCEPT !.last = "ensure",
                   !.bindings = BackfillBindingsIfNeeded(call.entries, call.bindings)]
    /\ UNCHANGED <<jobVars, sceneVars>>

\* save_scene_image_cache_entry on a source file that exists
SaveSceneImageCacheEntry(ref_paths) ==
    LET entry == [id |-> call.saves + 1, created_at |-> call.saves + 1,
                  ref_paths |-> ref_paths]
        ensured == BackfillBindingsIfNeeded(call.entries, call.bindings)
        inserted == call.entries \cup {entry}
    IN /\ call.op = "scene_cache"
       /\ call.saves < MaxSaves
       /\ call' = [call EXCEPT !.last = "save",
                      !.entries = PruneDbEntries(inserted, MaxKept),
                      !.bindings = SyncEntryBindings(ensured, entry),
                      !.saves = @ + 1,
                      !.saved = entry.id,
                      !.inserted = inserted]
       /\ UNCHANGED <<jobVars, sceneVars>>

SceneCacheNext ==
    \/ SceneCacheOpen
    \/ EnsureSceneCachePaths
    \/ \E ref_paths \in SUBSET CachePaths : SaveSceneImageCacheEntry(ref_paths)

SceneCacheSpec == Init /\ [][SceneCacheNext]_vars

\* ------------------------------------------------ build_segment_image_bundle
\* Character indexes are 0 .. size - 1 as in the code; NoIndex is None.
NoIndex == -1

\* _normalize_index
NormalizeIndex(value, size) ==
    IF size <= 0 THEN NoIndex
    ELSE IF 0 <= value /\ value < size THEN value
    ELSE NoIndex

\* _normalize_index_list: the in-range indexes, each once, the first limit
RECURSIVE NormalizeIndexListFrom(_, _, _, _)
NormalizeIndexListFrom(values, size, limit, output) ==
    IF values = <<>> \/ Len(output) >= Max(1, limit) THEN output
    ELSE LET index == NormalizeIndex(Head(values), size)
         IN IF index = NoIndex \/ index \in SeqRange(output)
            THEN NormalizeIndexListFrom(Tail(values), size, limit, output)
            ELSE NormalizeIndexListFrom(Tail(values), size, limit, Append(output, index))

NormalizeIndexList(values, size, limit) ==
    IF size <= 0 THEN <<>> ELSE NormalizeIndexListFrom(values, size, limit, <<>>)

\* lines 599-606 and 695-702: the primary index and the related indexes made
\* whole, default_primary standing in for a missing primary
ResolveAssignment(primary_index, related_indexes, size, default_primary) ==
    LET related == NormalizeIndexList(related_indexes, size, 3)
        normalized == NormalizeIndex(primary_index, size)
        primary == IF normalized # NoIndex THEN normalized
                   ELSE IF related # <<>> THEN related[1]
                   ELSE default_primary
    IN [primary_index |-> primary,
        related_indexes |-> IF primary # NoIndex /\ primary \notin SeqRange(related)
                            THEN <<primary>> \o related ELSE related]

\* _fallback_segment_image_bundle: its prompt and metadata are functions of
\* the character and the segment text alone
FallbackSegmentImageBundle(default_primary_index, default_related_indexes) ==
    [prompt |-> "fallback", error |-> "",
     character_assignment |->
        [primary_index |-> default_primary_index,
         related_indexes |-> SubSeq(default_related_indexes, 1,
                                    IF Len(default_related_indexes) < 3
                                    THEN Len(default_related_indexes) ELSE 3),
         reason |-> "fallback"]]

\* What the chat completion does: it fails (HTTP error status, timeout, a
\* body that is no JSON or has no choices), answers text that holds no JSON
\* object, answers an object without prompt, or answers one with a prompt
\* and an assignment of its own.
LlmBundleOutcomes == {"http_error", "timeout", "unparseable", "no_prompt", "prompt"}
LlmBundleReplies ==
    [outcome : LlmBundleOutcomes, primary_index : {NoIndex, 1},
     related_indexes : {<<>>, <<2, 1>>}]

\* faulty variant: the call is made outside the try
BuildSegmentImageBundleRaising(default_primary_index, default_related_indexes, size, llm_api_key, reply) ==
    IF llm_api_key /\ reply.outcome \in {"http_error", "timeout"}
    THEN [prompt |-> "", error |-> reply.outcome,
          character_assignment |->
             [primary_index |-> NoIndex, related_indexes |-> <<>>, reason |-> ""]]
    ELSE FallbackSegmentImageBundle(default_primary_index, default_related_indexes)

\* build_segment_image_bundle with size character candidates
BuildSegmentImageBundle(default_primary_index, default_related_indexes, size, llm_api_key, reply) ==
    LET safe_default == ResolveAssignment(default_primary_index, default_related_indexes,
                                          size, IF size > 0 THEN 0 ELSE NoIndex)
        fallback_bundle == FallbackSegmentImageBundle(safe_default.primary_index,
                                                      safe_default.related_indexes)
        resolved == ResolveAssignment(reply.primary_index, reply.related_indexes, size,
                                      safe_default.primary_index)
    IN IF ~llm_api_key THEN fallback_bundle
       ELSE IF reply.outcome = "prompt"
       THEN [prompt |-> "llm", error |-> "",
             character_assignment |->
                [primary_index |-> resolved.primary_index,
                 related_indexes |-> resolved.related_indexes, reason |-> "llm"]]
       ELSE fallback_bundle

\* The defaults run_video_job passes (lines 1981-2007): the index of the
\* picked character, and the indexes of the related characters in the order
\* of the character list, the picked one among them.
RECURSIVE Ascending(_)
Ascending(indexes) ==
    IF indexes = {} THEN <<>>
    ELSE LET least == CHOOSE i \in indexes : \A o \in indexes : i <= o
         IN <<least>> \o Ascending(indexes \ {least})

CandidateIndexes == 0..(MaxCandidates - 1)
DefaultAssignments ==
    UNION {{[primary_index |-> primary, related_indexes |-> Ascending(related)] :
               related \in {r \in SUBSET CandidateIndexes : primary \in r}} :
           primary \in CandidateIndexes}

BuildSegmentImageBundleStep ==
    /\ call = NoCall
    /\ \E default \in DefaultAssignments, llm_api_key \in BOOLEAN, reply \in LlmBundleReplies :
          call' = [op |-> "build_segment_image_bundle", default |-> default,
                   llm_api_key |-> llm_api_key, reply |-> reply,
                   result |-> BuildSegmentImageBundle(default.primary_index,
                                  default.related_indexes, MaxCandidates, llm_api_key, reply)]
    /\ UNCHANGED <<jobVars, sceneVars>>

PromptNext == BuildSegmentImageBundleStep

PromptSpec == Init /\ [][PromptNext]_vars

\* ----------------------------------------------------------- split_sentences
\* A text is a sequence of characters.  Of the ten delimiters "." and "?" have
\* rules of their own and "!" stands for the other eight; "(" and ")" stand
\* for the marks that only open or only close; the straight quote is in both
\* opening_marks and closing_marks; "1" is a digit, "a" any other character
\* and " " the blank.
sentence_delimiters == {".", "?", "!"}
opening_marks == {"(", "\""}
closing_marks == {")", "\""}
Digits == {"1"}
Characters == {"a", "1", " "} \cup sentence_delimiters \cup opening_marks \cup closing_marks

\* _normalize_segmentation_text leaves no blank at either end and no two
\* blanks in a row
NormalizedTexts ==
    {clean \in UNION {[1..n -> Characters] : n \in 1..MaxChars} :
        /\ clean[1] # " "
        /\ clean[Len(clean)] # " "
        /\ \A i \in 1..(Len(clean) - 1) : ~(clean[i] = " " /\ clean[i + 1] = " ")}

\* str.strip() of the buffer
RECURSIVE StripChars(_)
StripChars(buffer) ==
    IF buffer = <<>> THEN <<>>
    ELSE IF Head(buffer) = " " THEN StripChars(Tail(buffer))
    ELSE IF buffer[Len(buffer)] = " " THEN StripChars(SubSeq(buffer, 1, Len(buffer) - 1))
    ELSE buffer

\* _flush
Flush(sentences, buffer) ==
    IF StripChars(buffer) # <<>> THEN Append(sentences, StripChars(buffer)) ELSE sentences

\* clean[index] as the code reads it, "" past either end
CharAt(clean, index) == IF index >= 1 /\ index <= Len(clean) THEN clean[index] ELSE ""

\* faulty variant: a "." between two digits splits
DelimiterSplitsInNumbers(clean, index) ==
    /\ CharAt(clean, index + 1) \notin sentence_delimiters
    /\ CharAt(clean, index + 1) \notin opening_marks
    /\ ~(clean[index] = "?" /\ CharAt(clean, index - 1) = "?")

\* lines 262-276: the delimiter at index is followed by none of the four
\* continue statements
DelimiterSplits(clean, index) ==
    /\ CharAt(clean, index + 1) \notin sentence_delimiters
    /\ CharAt(clean, index + 1) \notin opening_marks
    /\ ~(/\ clean[index] = "."
          /\ CharAt(clean, index - 1) \in Digits
          /\ CharAt(clean, index + 1) \in Digits)
    /\ ~(clean[index] = "?" /\ CharAt(clean, index - 1) = "?")

\* lines 278-281: the index past the closing marks that follow index
RECURSIVE TailIndex(_, _)
TailIndex(clean, tail_index) ==
    IF tail_index <= Len(clean) /\ clean[tail_index] \in closing_marks
    THEN TailIndex(clean, tail_index + 1)
    ELSE tail_index

\* the while loop of _split_sentences_v2 from index on (indexes from 1): the
\* sentences, and the indexes of the last character of each flushed buffer
RECURSIVE SplitLoop(_, _, _, _, _)
SplitLoop(clean, index, buffer, sentences, cuts) ==
    IF index > Len(clean)
    THEN [sentences |-> Flush(sentences, buffer), cuts |-> cuts]
    ELSE IF clean[index] \notin sentence_delimiters \/ ~DelimiterSplits(clean, index)
    THEN SplitLoop(clean, index + 1, Append(buffer, clean[index]), sentences, cuts)
    ELSE LET tail_index == TailIndex(clean, index + 1)
         IN SplitLoop(clean, tail_index, <<>>,
                      Flush(sentences, buffer \o SubSeq(clean, index, tail_index - 1)),
                      cuts \cup {tail_index - 1})

\* _split_sentences_v2
SplitSentencesV2(clean) == SplitLoop(clean, 1, <<>>, <<>>, {})

\* split_sentences on a text that normalizes to clean
SplitSentencesStep ==
    /\ call = NoCall
    /\ \E clean \in NormalizedTexts :
          call' = [op |-> "split_sentences", clean |-> clean,
                   result |-> SplitSentencesV2(clean)]
    /\ UNCHANGED <<jobVars, sceneVars>>

SplitNext == SplitSentencesStep

SplitSpec == Init /\ [][SplitNext]_vars

\* -------------------------------------------------- select_segments_by_range
\* A token of the range text after the separators are normalized and the
\* blanks stripped: a number n ("n"), a negative number ("-n", low = -n), a
\* range ("a-b"), or text that is neither.  Segments are their 1-based
\* numbers.
RangeTokens ==
    [kind : {"number"}, low : (-1)..MaxToken, high : {0}] \cup
    [kind : {"range"}, low : 0..MaxToken, high : 0..MaxToken] \cup
    {[kind |-> "text", low |-> 0, high |-> 0]}

\* the text of the claim's example, 2,4-6,9-20, on ten segments
ExampleParts ==
    <<[kind |-> "number", low |-> 2, high |-> 0],
      [kind |-> "range", low |-> 4, high |-> 6],
      [kind |-> "range", low |-> 9, high |-> 20]>>
ExampleTotal == Len(<<1, 2, 3, 4, 5, 6, 7, 8, 9, 10>>)

\* faulty variant: a number already selected is appended again
RangeNumbersRepeating(number, hi, total, selected) ==
    [n \in 1..(IF hi > total THEN total - number + 1 ELSE hi - number + 1) |->
        number + n - 1]

\* lines 164-170: the numbers of lo..hi not past total and not selected yet
RECURSIVE RangeNumbers(_, _, _, _)
RangeNumbers(number, hi, total, selected) ==
    IF number > hi \/ number > total THEN <<>>
    ELSE IF number \in SeqRange(selected)
    THEN RangeNumbers(number + 1, hi, total, selected)
    ELSE <<number>> \o RangeNumbers(number + 1, hi, total, Append(selected, number))

\* lines 135-155: start and end of a part, "ValueError" for a token that is
\* no number and no range ("-n" is one when there are several tokens)
PartBounds(part, single_token_mode) ==
    IF part.kind = "number" /\ single_token_mode
    THEN [error |-> "", start |-> 1, end |-> part.low]
    ELSE IF part.kind = "number" /\ part.low >= 0
    THEN [error |-> "", start |-> part.low, end |-> part.low]
    ELSE IF part.kind = "range"
    THEN [error |-> "", start |-> part.low, end |-> part.high]
    ELSE [error |-> "ValueError", start |-> 0, end |-> 0]

\* the for loop over the parts
RECURSIVE SelectLoop(_, _, _, _)
SelectLoop(parts, total, single_token_mode, selected) ==
    IF parts = <<>> THEN [error |-> "", selected |-> selected]
    ELSE LET bounds == PartBounds(Head(parts), single_token_mode)
             lo == IF bounds.start <= bounds.end THEN bounds.start ELSE bounds.end
             hi == IF bounds.start <= bounds.end THEN bounds.end ELSE bounds.start
         IN IF bounds.error # "" \/ bounds.start <= 0 \/ bounds.end <= 0
            THEN [error |-> "ValueError", selected |-> <<>>]
            ELSE SelectLoop(Tail(parts), total, single_token_mode,
                            selected \o RangeNumbers(lo, hi, total, selected))

\* select_segments_by_range(segments, range_spec) on total segments and the
\* parts of range_spec: no part, or one number not above zero, gives all
SelectSegmentsByRangeParts(total, parts) ==
    IF parts = <<>> THEN [error |-> "", selected |-> [n \in 1..total |-> n]]
    ELSE IF Len(parts) = 1 /\ parts[1].kind = "number" /\ parts[1].low <= 0
    THEN [error |-> "", selected |-> [n \in 1..total |-> n]]
    ELSE SelectLoop(parts, total, Len(parts) = 1, <<>>)

SelectSegmentsByRangeStep ==
    /\ call = NoCall
    /\ \E total \in 0..MaxToken, parts \in {<<>>} \cup {<<a>> : a \in RangeTokens} \cup {<<a, b>> : a, b \in RangeTokens} :
          call' = [op |-> "select_segments_by_range", total |-> total, parts |-> parts,
                   result |-> SelectSegmentsByRangeParts(total, parts)]
    /\ UNCHANGED <<jobVars, sceneVars>>

SelectSegmentsByRangeExample ==
    /\ call = NoCall
    /\ call' = [op |-> "select_segments_by_range", total |-> ExampleTotal,
                parts |-> ExampleParts,
                result |-> SelectSegmentsByRangeParts(ExampleTotal, ExampleParts)]
    /\ UNCHANGED <<jobVars, sceneVars>>

RangeNext ==
    \/ SelectSegmentsByRangeStep
    \/ SelectSegmentsByRangeExample

RangeSpec == Init /\ [][RangeNext]_vars

\* ------------------------------------------------------- JobStore, called
\* The methods of JobStore called one at a time, by any caller, on any job.
\* Each method holds the store's lock from its first statement to its commit,
\* so a call is one step.  call records the method, its arguments, what the
\* three tables held for the job when the call began, and what it returned.
StoredStatuses == {"queued", "running", "completed", "failed", "cancelled"}
StoreRows == {[NullRow EXCEPT !.status = s] : s \in StoredStatuses}

\* what get, load_payload and is_cancelled return for job j
StoreView(j) ==
    [row |-> jobs[j], payload |-> payloads[j], flag |-> is_cancelled(j)]

StoreCall(op, j, result) ==
    [op |-> op, job |-> j, before |-> StoreView(j), result |-> result]

\* JobStore.set(job)
StoreSetCall(j, row) ==
    /\ JobStoreSet(j, row)
    /\ call' = StoreCall("set", j, "None")
    /\ UNCHANGED <<payloads, cancel_flags, diskVars, procVars, envVars, sceneVars>>

\* JobStore.save_payload(job_id, payload, base_url)
StoreSavePayloadCall(j, n, u) ==
    /\ payloads' = [payloads EXCEPT ![j] = [present |-> TRUE, segments |-> n, base_url |-> u]]
    /\ call' = StoreCall("save_payload", j, "None")
    /\ UNCHANGED <<jobs, cancel_flags, updated_order, created_order,
                   diskVars, procVars, envVars, sceneVars>>

\* JobStore.cancel(job_id): False and nothing written when the job has no row
StoreCancelCall(j) ==
    /\ cancel_flags' = IF jobs[j].status = "none" THEN cancel_flags
                       ELSE cancel_flags \cup {j}
    /\ call' = StoreCall("cancel", j, IF jobs[j].status = "none" THEN "False" ELSE "True")
    /\ UNCHANGED <<jobs, payloads, updated_order, created_order,
                   diskVars, procVars, envVars, sceneVars>>

\* JobStore.clear_cancel(job_id)
StoreClearCancelCall(j) ==
    /\ cancel_flags' = cancel_flags \ {j}
    /\ call' = StoreCall("clear_cancel", j, "None")
    /\ UNCHANGED <<jobs, payloads, updated_order, created_order,
                   diskVars, procVars, envVars, sceneVars>>

\* JobStore.delete_job(job_id)
StoreDeleteJobCall(j) ==
    /\ JobStoreDeleteJob(j)
    /\ call' = StoreCall("delete_job", j, IF jobs[j].status = "none" THEN "False" ELSE "True")
    /\ UNCHANGED <<diskVars, procVars, envVars, sceneVars>>

\* JobStore.list_incomplete_job_ids()
StoreListIncompleteCall ==
    /\ call' = [op |-> "list_incomplete_job_ids", job |-> "",
                before |-> [row |-> NullRow, payload |-> NullPayload, flag |-> FALSE],
                result |-> list_incomplete_job_ids]
    /\ UNCHANGED <<storeVars, diskVars, procVars, envVars, sceneVars>>

StoreNext ==
    \/ \E j \in JobIds, row \in StoreRows : StoreSetCall(j, row)
    \/ \E j \in JobIds, n \in 1..MaxSegments, u \in BaseUrls : StoreSavePayloadCall(j, n, u)
    \/ \E j \in JobIds : StoreCancelCall(j)
    \/ \E j \in JobIds : StoreClearCancelCall(j)
    \/ \E j \in JobIds : StoreDeleteJobCall(j)
    \/ StoreListIncompleteCall

StoreSpec == Init /\ [][StoreNext]_vars

\* ---------------------------------------------------------- specifications
CreateStep(j) ==
    \/ \E n \in 1..MaxSegments, u \in BaseUrls : CreateJobSavePayload(j, n, u)
    \/ CreateJobQueue(j)
    \/ CreateJobStart(j)

CancelStep(j) == CancelJobFlag(j) \/ CancelJobGet(j) \/ CancelJobSet(j)

ResumeStep(j) ==
    \/ ResumeJobGet(j)
    \/ ResumeJobPayloadMissing(j)
    \/ \E u \in BaseUrls \cup {""} : ResumeJobPrepare(j, u)
    \/ ResumeJobQueue(j)
    \/ ResumeJobStart(j)

DeleteStep(j) == DeleteJobResolve(j) \/ DeleteJobArtifacts(j) \/ DeleteJobRow(j)

RecoveryStep(j) == RecoverPayloadMissing(j) \/ RecoverResume(j)

\* One job, every handler, every fault, any number of crashes.  Jobs share no
\* row, file or runner entry: the handlers and the threads of one job read and
\* write nothing of another.
SoloJobs == {JobIdSeq[1]}

Next ==
    \/ \E j \in SoloJobs :
        \/ CreateStep(j)
        \/ CancelStep(j)
        \/ ResumeStep(j)
        \/ GetJobStatus(j)
        \/ DeleteStep(j)
        \/ RecoveryStep(j)
        \/ \E k \in Slots : WorkerStep(j, k)
        \/ \E k \in Slots : WorkerFault(j, k)
    \/ RecoverDone
    \/ CrashAndRestart

Spec == Init /\ [][Next]_vars

\* The steps of a run in which every collaborator call succeeds and no cancel
\* is requested.
WorkerQuietStep(j, k) ==
    \/ WorkerBegin(j, k)
    \/ WorkerSegmentOk(j, k)
    \/ WorkerIterate(j, k)
    \/ WorkerSkipClip(j, k)
    \/ WorkerPromptTts(j, k)
    \/ \E source \in ImageOutcomes : WorkerImage(j, k, source)
    \/ WorkerRender(j, k)
    \/ WorkerRenderStored(j, k)
    \/ WorkerFinalExists(j, k)
    \/ WorkerComposeBegin(j, k)
    \/ \E size \in ComposedSizes : WorkerCompose(j, k, size)
    \/ WorkerNotCancelledAfterCompose(j, k)
    \/ WorkerComplete(j, k)
    \/ WorkerFinally(j, k)
    \/ WorkerExit(j, k)

\* A job is created and run; the process dies at most MaxCrashes times; no
\* cancel, no resume request, no delete, no fault.
RecoveryNext ==
    \/ \E j \in SoloJobs :
        \/ CreateStep(j)
        \/ RecoverResume(j)
        \/ \E k \in Slots : WorkerQuietStep(j, k)
    \/ RecoverDone
    \/ CrashAndRestartBounded

\* The steps that need no request and no crash: those of the threads, of a
\* create_job under way and of the startup hook.
RecoveryProgress ==
    \/ \E j \in SoloJobs :
        \/ CreateJobQueue(j)
        \/ CreateJobStart(j)
        \/ RecoverResume(j)
        \/ \E k \in Slots : WorkerQuietStep(j, k)
    \/ RecoverDone

\* The process does not stop while a thread, a handler under way or the
\* startup hook can take a step: threads are scheduled by the operating system
\* and none of these steps waits for a lock another of them could keep.
\* Nothing makes a request arrive or the process die.
RecoveryFairness == WF_vars(RecoveryProgress)

RecoverySpec == Init /\ [][RecoveryNext]_vars /\ RecoveryFairness

\* The steps of a quiet run, the render in its two steps.
WorkerCheckpointStep(j, k) ==
    \/ WorkerBegin(j, k)
    \/ WorkerSegmentOk(j, k)
    \/ WorkerIterate(j, k)
    \/ WorkerSkipClip(j, k)
    \/ WorkerPromptTts(j, k)
    \/ \E source \in ImageOutcomes : WorkerImage(j, k, source)
    \/ WorkerRenderOpen(j, k)
    \/ WorkerRenderClose(j, k)
    \/ WorkerRenderStored(j, k)
    \/ WorkerFinalExists(j, k)
    \/ WorkerComposeBegin(j, k)
    \/ \E size \in ComposedSizes : WorkerCompose(j, k, size)
    \/ WorkerNotCancelledAfterCompose(j, k)
    \/ WorkerComplete(j, k)
    \/ WorkerFinally(j, k)
    \/ WorkerExit(j, k)

\* A job is created and run; the process dies at most MaxCrashes times, also
\* while write_videofile fills a clip.
CheckpointNext ==
    \/ \E j \in SoloJobs :
        \/ CreateStep(j)
        \/ RecoverResume(j)
        \/ \E k \in Slots : WorkerCheckpointStep(j, k)
    \/ RecoverDone
    \/ CrashAndRestartBounded

CheckpointSpec == Init /\ [][CheckpointNext]_vars

\* A job is created, cancelled and resumed any number of times; no fault, no
\* delete, no crash.
ResumeNext ==
    \E j \in SoloJobs :
        \/ CreateStep(j)
        \/ CancelStep(j)
        \/ ResumeJobGet(j)
        \/ \E u \in BaseUrls \cup {""} : ResumeJobPrepare(j, u)
        \/ ResumeJobQueue(j)
        \/ ResumeJobStart(j)
        \/ \E k \in Slots : WorkerQuietStep(j, k)
        \/ \E k \in Slots : WorkerCancelAtTop(j, k)
        \/ \E k \in Slots : WorkerCancelAfterLoop(j, k)
        \/ \E k \in Slots : WorkerCancelAfterCompose(j, k)

\* The steps of a handler under way, and those of the threads: neither waits
\* for a request.
ResumeHandlerProgress ==
    \E j \in SoloJobs :
        \/ CreateJobQueue(j)
        \/ CreateJobStart(j)
        \/ CancelJobGet(j)
        \/ CancelJobSet(j)
        \/ \E u \in BaseUrls \cup {""} : ResumeJobPrepare(j, u)
        \/ ResumeJobQueue(j)
        \/ ResumeJobStart(j)

ResumeThreadProgress ==
    \E j \in SoloJobs, k \in Slots :
        \/ WorkerQuietStep(j, k)
        \/ WorkerCancelAtTop(j, k)
        \/ WorkerCancelAfterLoop(j, k)
        \/ WorkerCancelAfterCompose(j, k)

\* The handler under way and the threads are each scheduled; nothing makes a
\* request arrive.
ResumeSpec ==
    Init /\ [][ResumeNext]_vars /\ WF_vars(ResumeHandlerProgress) /\ WF_vars(ResumeThreadProgress)

\* The resolver and the deque of one run after another over one scene cache.
ResolverNext ==
    \/ \E window \in 0..MaxWindow, reuse \in BOOLEAN : SceneRunBegin(window, reuse)
    \/ \E e \in EntryIds : SegmentImageCache(e)
    \/ \E saved \in BOOLEAN : SegmentImageGenerated(saved)
    \/ \E kind \in FallbackLookups, e \in EntryIds : SegmentImageFallback(kind, e)
    \/ SegmentImageFallbackReference
    \/ SceneRunEnd

ResolverSpec == Init /\ [][ResolverNext]_vars

\* One call of one of the functions that read no job state, on any of the
\* arguments enumerated for it.
FunctionNext ==
    \/ StrictLookupStep
    \/ LenientLookupStep
    \/ ResolveSegmentImageStep
    \/ SegmentTextStep
    \/ SanitizeCharacterVoicesStep
    \/ SynthesizeTtsStep

FunctionSpec == Init /\ [][FunctionNext]_vars

\* One request to generate_video, the job it creates run to its end, with the
\* process dying at most MaxCrashes times.
RequestTexts == {"", " ", "s"}

ValidationNext ==
    \/ \E text \in RequestTexts, range_spec \in SegmentGroupsRanges :
         GenerateVideoRefuse(text, range_spec)
    \/ \E j \in SoloJobs :
        \/ \E text \in RequestTexts, n \in 1..MaxSegments,
              range_spec \in SegmentGroupsRanges, u \in BaseUrls :
                GenerateVideo(j, text, n, range_spec, u)
        \/ CreateJobQueue(j)
        \/ CreateJobStart(j)
        \/ RecoverResume(j)
        \/ \E k \in Slots : WorkerQuietStep(j, k)
        \/ \E k \in Slots : WorkerSegmentFail(j, k)
        \/ \E k \in Slots : WorkerExcept(j, k)
    \/ RecoverDone
    \/ CrashAndRestartBounded

ValidationSpec == Init /\ [][ValidationNext]_vars

DeleteFinalVideoStep(j) ==
    \/ DeleteFinalVideoGet(j)
    \/ DeleteFinalVideoUnlink(j)
    \/ DeleteFinalVideoRow(j)

\* One job with its thread and the handlers that create, cancel and resume it,
\* read its status and delete its final video; the process does not die.
FinalVideoNext ==
    \E j \in SoloJobs :
        \/ CreateStep(j)
        \/ CancelStep(j)
        \/ ResumeStep(j)
        \/ GetJobStatus(j)
        \/ DeleteFinalVideoStep(j)
        \/ \E k \in Slots : WorkerStep(j, k)
        \/ \E k \in Slots : WorkerFault(j, k)

FinalVideoSpec == Init /\ [][FinalVideoNext]_vars

\* The job of FinalVideoSpec, and one call of _resolve_job_status on it in
\* whatever state the store and the disk are in.
StatusNext ==
    \/ /\ call = NoCall
       /\ FinalVideoNext
    \/ \E j \in SoloJobs : ResolveJobStatusCall(j)

StatusSpec == Init /\ [][StatusNext]_vars

\* ------------------------------------------------------------------ properties
\* a step of runner thread k of job j (not the death of the process)
ThreadStepped(j, k) ==
    /\ worker'[j][k] # worker[j][k]
    /\ worker[j][k].pc # "idle"
    /\ worker'[j][k].pc # "idle"

ReportTotal(row) ==
    IF row.image_source_report.present
    THEN SumCounts(row.image_source_report.source_counts) ELSE 0

\* C1 (part): no run starts an operation for, or writes the clip of, a segment
\* whose clip file it found on disk when it reached that segment.
FoundClipsLeftAlone ==
    \A j \in JobIds, k \in Slots :
        /\ worker[j][k].seen_existing \cap worker[j][k].ops_started = {}
        /\ worker[j][k].seen_existing \cap worker[j][k].rendered = {}

\* C1 (part): the step a worker takes at segment index i when clips/clip_i is a
\* file only increments the rendered count and stores the progress.
FoundClipOnlyCounted ==
    \A j \in JobIds, k \in Slots :
        (/\ worker[j][k].pc = "clip_check"
         /\ worker[j][k].index \in clips[j]
         /\ ThreadStepped(j, k))
        => /\ clips' = clips
           /\ final_size' = final_size
           /\ worker'[j][k].ops_started = worker[j][k].ops_started
           /\ worker'[j][k].rendered = worker[j][k].rendered
           /\ worker'[j][k].rendered_clip_count = worker[j][k].rendered_clip_count + 1
           /\ worker'[j][k].index = worker[j][k].index + 1
           /\ jobs'[j].status = "running"
           /\ jobs'[j].clip_count = worker[j][k].rendered_clip_count + 1
           /\ jobs'[j].current_segment = worker[j][k].index + 1

\* C1: resume skips finished segments.  Whenever run_video_job reaches segment
\* index i and clips/clip_i already exists as a file, it starts no prompt, TTS,
\* image or render operation for i and never writes that clip; it only
\* increments the rendered count and persists progress, in every kind of run.
ResumeSkipsFinishedSegments ==
    /\ []FoundClipsLeftAlone
    /\ [][FoundClipOnlyCounted]_vars

\* a resumed run that found clip 0 on disk and rendered clip 1 itself
ResumeSkipsFinishedSegmentsWitness ==
    \E j \in JobIds, k \in Slots :
        /\ worker[j][k].seen_existing = {0}
        /\ worker[j][k].rendered = {1}
        /\ jobs[j].clip_count = 2

\* C2 (part): a run that saw the final file with at least 16 KiB after its loop
\* has not invoked the compositor.
NoComposeAfterFinalSeen ==
    \A j \in JobIds, k \in Slots :
        worker[j][k].final_ok_seen => ~worker[j][k].composed

\* C2 (part): leaving the loop uncancelled with the final file of at least
\* 16 KiB on disk, the worker stores completed with the output path.
FinalSeenStoresCompleted ==
    \A j \in JobIds, k \in Slots :
        (/\ worker[j][k].pc = "post_loop"
         /\ j \notin cancel_flags
         /\ final_size[j] >= MinFinalBytes
         /\ ThreadStepped(j, k))
        => /\ jobs'[j].status = "completed"
           /\ jobs'[j].output_video_path = j
           /\ worker'[j][k].pc = "finally"
           /\ ~worker'[j][k].composed
           /\ final_size' = final_size

\* C2: compose is idempotent.  When the worker leaves the segment loop without
\* cancellation and output/<job_id>.mp4 exists with size >= 16 KiB, it stores
\* status completed with that output path and never invokes _render_final_sync
\* in that run.
ComposeIsIdempotent ==
    /\ []NoComposeAfterFinalSeen
    /\ [][FinalSeenStoresCompleted]_vars

\* a run that ended on the "already exists" branch, the final file being
\* exactly 16 KiB
ComposeIsIdempotentWitness ==
    \E j \in JobIds, k \in Slots :
        /\ worker[j][k].pc = "finally"
        /\ worker[j][k].final_ok_seen
        /\ final_size[j] = MinFinalBytes
        /\ jobs[j].status = "completed"
        /\ jobs[j].message = "Video already exists, job recovered"
        /\ jobs[j].output_video_path = j

\* C3 (part): a run that found the cancel flag set at the top of iteration i
\* has started nothing for i or a later segment, has not composed, and is on
\* its way out.
NothingAfterCancelSeen ==
    \A j \in JobIds, k \in Slots :
        worker[j][k].cancel_seen_at >= 0 =>
            /\ \A i \in worker[j][k].ops_started \cup worker[j][k].rendered :
                    i < worker[j][k].cancel_seen_at
            /\ ~worker[j][k].composed
            /\ worker[j][k].pc \in {"finally", "exit"}

\* C3 (part): the step taken at the top of the iteration with the flag set
\* stores cancelled and leaves the loop.
CancelSeenStoresCancelled ==
    \A j \in JobIds, k \in Slots :
        (/\ worker[j][k].pc = "top"
         /\ j \in cancel_flags
         /\ ThreadStepped(j, k))
        => /\ jobs'[j].status = "cancelled"
           /\ jobs'[j].current_segment = worker[j][k].index
           /\ worker'[j][k].pc = "finally"
           /\ diskVars' = diskVars

\* C3: cancellation takes effect before the next segment.  If the cancel flag
\* is set when the worker evaluates the check at the top of the iteration for
\* segment i, it starts no operation for i or any later segment, never invokes
\* compose in that run, stores status cancelled and exits.
CancelBeforeNextSegment ==
    /\ []NothingAfterCancelSeen
    /\ [][CancelSeenStoresCancelled]_vars

\* a run cancelled at the top of iteration 1, after it rendered segment 0
CancelBeforeNextSegmentWitness ==
    \E j \in JobIds, k \in Slots :
        /\ worker[j][k].cancel_seen_at = 1
        /\ worker[j][k].rendered = {0}
        /\ worker[j][k].pc = "exit"
        /\ jobs[j].status = "cancelled"
        /\ jobs[j].message = "Job cancelled"

RunningThreads(j) == {k \in Slots : worker[j][k].pc # "idle"}

\* C4 (part): no job has two threads in run_video_job, and a job with a thread
\* is in the active-runner set.
OneThreadPerJob ==
    \A j \in JobIds :
        /\ Cardinality(RunningThreads(j)) <= 1
        /\ RunningThreads(j) # {} => j \in ACTIVE_RUNNERS

\* C4 (part): a thread starts only for an id absent from the active-runner
\* set, and an id leaves the set only when no thread of it is left.
RunnerSetGuardsStart ==
    \A j \in JobIds :
        /\ (\E k \in Slots : worker[j][k].pc = "idle" /\ worker'[j][k].pc # "idle")
            => j \notin ACTIVE_RUNNERS /\ j \in ACTIVE_RUNNERS'
        /\ (j \in ACTIVE_RUNNERS /\ j \notin ACTIVE_RUNNERS')
            => \A k \in Slots : worker'[j][k].pc = "idle"

\* C4: at most one worker per job.  Under every interleaving of create_job,
\* resume_job and resume_interrupted_jobs at most one thread executes
\* run_video_job for a job id; _start_job_runner starts a thread only if the id
\* is absent from the active-runner set, and the id leaves the set only when
\* that thread exits.
AtMostOneWorkerPerJob ==
    /\ []OneThreadPerJob
    /\ [][RunnerSetGuardsStart]_vars

\* resume_job has run to its end while the job's thread was in the middle of a
\* segment: its row is the stored one, and there is still one thread
AtMostOneWorkerPerJobWitness ==
    \E j \in JobIds :
        /\ http.op = "none"
        /\ jobs[j].status = "queued"
        /\ jobs[j].message = "Resume requested, continue from checkpoint"
        /\ worker[j][1].pc = "render"
        /\ j \in ACTIVE_RUNNERS

\* C5: completed is terminal.  Once the stored row of a job has status
\* completed with a non-empty output_video_path, no interleaving of cancel_job,
\* resume_job and worker status updates changes that status or clears the path
\* (the row being deleted is not counted).
CompletedIsTerminal ==
    [][\A j \in JobIds :
        (/\ jobs[j].status = "completed"
         /\ jobs[j].output_video_path # ""
         /\ jobs'[j].status # "none")
        => /\ jobs'[j].status = "completed"
           /\ jobs'[j].output_video_path # ""]_vars

\* cancel_job has overwritten a completed row with the one it read earlier
CompletedOverwritten ==
    \E j \in JobIds :
        /\ jobs[j].status = "cancelled"
        /\ jobs[j].message = "Cancel request accepted, stopping"
        /\ \E k \in Slots : /\ worker[j][k].pc \in {"finally", "exit"}
                            /\ worker[j][k].composed
                            /\ worker[j][k].cancel_seen_at < 0
        /\ final_size[j] # Absent

\* C8 (part): when a run has started operations for segment i, every earlier
\* segment was found on disk or rendered by that run.
SegmentsInOrder ==
    \A j \in JobIds, k \in Slots :
        \A i \in worker[j][k].ops_started :
            \A m \in 0..(i - 1) :
                m \in worker[j][k].seen_existing \cup worker[j][k].rendered

\* C8 (part): when the compositor was invoked, clip 0 .. N-1 were all files.
ComposeAfterAllClips ==
    \A j \in JobIds, k \in Slots :
        worker[j][k].composed =>
            \A i \in 0..(worker[j][k].total - 1) : i \in worker[j][k].compose_clips

\* C8: ordering.  Within one worker run the operations for segment j begin
\* only after the clip of segment j-1 exists (rendered in this run or found on
\* disk), and the final compositor is invoked only after clip files exist for
\* every index 0..N-1.
OrderedSegmentsThenCompose == SegmentsInOrder /\ ComposeAfterAllClips

\* a run of two segments that found clip 0, rendered clip 1 and composed
OrderedSegmentsThenComposeWitness ==
    \E j \in JobIds, k \in Slots :
        /\ worker[j][k].total = 2
        /\ worker[j][k].seen_existing = {0}
        /\ worker[j][k].ops_started = {1}
        /\ worker[j][k].rendered = {1}
        /\ worker[j][k].composed
        /\ worker[j][k].compose_clips = {0, 1}

\* C9: image-source totals are cumulative.  The total of the persisted
\* image_source_report is never lowered while the row exists: not by a later
\* run, not by cancel_job, not by a status read.
ImageSourceTotalsCumulative ==
    [][\A j \in JobIds :
        (jobs[j].status # "none" /\ jobs'[j].status # "none")
        => ReportTotal(jobs'[j]) >= ReportTotal(jobs[j])]_vars

\* a run ended by a cancel request: it resolved an image and rendered the
\* clip, and the stored row has no report
ImageSourceReportLost ==
    \E j \in JobIds, k \in Slots :
        /\ worker[j][k].pc = "exit"
        /\ worker[j][k].rendered = {0}
        /\ SumCounts(worker[j][k].image_source_counts) = 1
        /\ jobs[j].status = "cancelled"
        /\ jobs[j].clip_count = 1
        /\ ~jobs[j].image_source_report.present

ToDo == {http.todo[i] : i \in 1..Len(http.todo)}

\* C6 (part): while resume_interrupted_jobs runs, every job stored queued or
\* running is still in its list or has its runner, and the list holds only
\* such jobs, each once.
StartupCoversIncomplete ==
    http.op = "startup" =>
        /\ \A j \in JobIds :
                jobs[j].status \in {"queued", "running"}
                    => j \in ToDo \/ j \in ACTIVE_RUNNERS
        /\ \A j \in ToDo : jobs[j].status \in {"queued", "running"}
        /\ Cardinality(ToDo) = Len(http.todo)

\* C6 (part): what one turn of the loop of resume_interrupted_jobs does with
\* the job at the head of the list, and that it leaves the other jobs alone.
StartupHandlesHead ==
    (/\ http.op = "startup"
     /\ http.todo # <<>>
     /\ http'.op = "startup"
     /\ http'.todo = Tail(http.todo))
    => LET j == Head(http.todo) IN
       /\ ~payloads[j].present =>
            /\ jobs'[j].status = "failed"
            /\ jobs'[j].message # ""
            /\ worker' = worker
            /\ ACTIVE_RUNNERS' = ACTIVE_RUNNERS
       /\ payloads[j].present =>
            /\ jobs'[j].status = "queued"
            /\ j \in ACTIVE_RUNNERS'
            /\ Cardinality({k \in Slots : worker'[j][k].pc # "idle"}) = 1
            /\ \E k \in Slots :
                /\ worker[j][k].pc = "idle"
                /\ worker'[j][k].pc = "begin"
                /\ worker'[j][k].segments = payloads[j].segments
                /\ worker'[j][k].base_url = payloads[j].base_url
       /\ payloads' = payloads
       /\ \A i \in JobIds :
            (i # j \/ jobs[i].status \in {"completed", "failed", "cancelled"})
                => jobs'[i] = jobs[i] /\ worker'[i] = worker[i]

\* C6: startup recovery.  resume_interrupted_jobs handles every job id whose
\* stored status is queued or running: with the payload row missing it stores
\* failed with a message and starts no worker, otherwise it starts exactly one
\* worker with the stored payload and base URL; completed, failed and
\* cancelled jobs are never touched.
StartupRecovery ==
    /\ []StartupCoversIncomplete
    /\ [][StartupHandlesHead]_vars

\* the loop of resume_interrupted_jobs has just failed a job whose payload row
\* is gone
StartupRecoveryWitness ==
    \E j \in JobIds :
        /\ http.op = "startup"
        /\ http.todo = <<>>
        /\ ~payloads[j].present
        /\ jobs[j].status = "failed"
        /\ jobs[j].message = "Job payload missing, cannot resume"
        /\ RunningThreads(j) = {}

\* C7 (part): a run renders no segment whose clip it found on disk, and
\* finds every clip that was on disk when the process died.
OnlyMissingClipsRendered ==
    \A j \in JobIds, k \in Slots :
        /\ worker[j][k].rendered \cap worker[j][k].seen_existing = {}
        /\ \A i \in 0..(worker[j][k].index - 1) :
                i \in worker[j][k].rendered \/ i \in worker[j][k].seen_existing

\* the process has restarted with job j stored queued or running, its payload
\* stored
InterruptedAtRestart(j) ==
    /\ http.op = "startup"
    /\ jobs[j].status \in {"queued", "running"}
    /\ payloads[j].present

CompletedWithArtifacts(j) ==
    /\ jobs[j].status = "completed"
    /\ \A i \in 0..(payloads[j].segments - 1) : i \in clips[j]
    /\ final_size[j] # Absent

LastIds(seq, n) ==
    IF Len(seq) <= n THEN seq ELSE SubSeq(seq, Len(seq) - n + 1, Len(seq))

IdsOf(seq) == {seq[i] : i \in 1..Len(seq)}

\* C10: no-repeat window.  With scene_reuse_no_repeat_window = N > 0 no cache
\* lookup of the resolver (strict, lenient LLM, random same-character,
\* scene-only, random) returns an entry whose id is among the last N ids
\* recorded by earlier segments of the run; the ring holds the last N recorded
\* ids and never more than N; with N = 0 it stays empty, so nothing is excluded.
NoRepeatWindow ==
    /\ Len(recent_scene_entry_ids) <= scene_run.lookback_scenes
    /\ recent_scene_entry_ids = LastIds(scene_run.recorded, scene_run.lookback_scenes)
    /\ scene_run.image_source \in {"cache"} \cup FallbackLookups
        => scene_run.reused_entry_id \notin
                IdsOf(LastIds(scene_run.earlier, scene_run.lookback_scenes))
    /\ scene_run.lookback_scenes = 0
        => blocked_ids(recent_scene_entry_ids) = {}

\* a run with N = 2 whose third segment took a cached image while the ring
\* held the ids of the first two
NoRepeatWindowWitness ==
    /\ scene_run.lookback_scenes = 2
    /\ scene_run.earlier = <<1, 2>>
    /\ scene_run.image_source = "cache"
    /\ scene_run.reused_entry_id = 3
    /\ recent_scene_entry_ids = <<2, 3>>

\* the references of the row are all apart from the target's
ReferencesDisjoint(target, e) ==
    LET target_profile == BuildMatchProfile(target)
        profile == EntryMatchProfile(e)
    IN /\ SeqRange(target_profile.reference_image_ids)
            \cap SeqRange(profile.reference_image_ids) = {}
       /\ SeqRange(target_profile.reference_image_paths)
            \cap SeqRange(profile.reference_image_paths) = {}
       /\ \/ target_profile.character_key # profile.character_key
          \/ target_profile.character_key = ""

TargetCarriesIds == BuildMatchProfile(call.target).reference_image_ids # <<>>

FallbackOrder == <<"fallback-llm", "fallback-character-cache", "fallback-reference",
                   "fallback-scene-only-cache", "fallback-random-cache">>

GenerationFailed ==
    /\ call.op = "_resolve_segment_image"
    /\ ~(call.reuse /\ call.strict_hit)
    /\ ~call.generated

RecomputedSignature(payload) ==
    BuildSegmentRequestSignature(payload.text, payload.segment_method,
        payload.sentences_per_segment, SegmentTextFixedSize, payload.model_id)

\* the vector with each item trimmed, nothing else changed
TrimmedItems(items) == [i \in 1..Len(items) |-> Strip(items[i])]

SignatureEquals(payload) ==
    /\ ~payload.segment_request_signature.padded
    /\ payload.segment_request_signature.digest = RecomputedSignature(payload)

\* C13 as stated: precomputed-segment reuse.  _segment_text returns the
\* client's precomputed vector unchanged, after trimming each item, if and
\* only if the request's signature equals the recomputed one; on that path the
\* smart-segmentation LLM is not invoked, and otherwise the text is
\* re-segmented.
PrecomputedSegmentReuse ==
    call.op = "_segment_text" =>
        /\ SignatureEquals(call.payload) <=> ~call.result.from_plan
        /\ ~call.result.from_plan =>
             /\ call.result.segments = TrimmedItems(call.payload.precomputed_segments)
             /\ ~call.result.plan.llm_invoked
        /\ call.result.from_plan =>
             /\ call.result.plan.segmenter = call.payload.segment_method
             /\ call.result.plan.text = call.payload.text

\* C13 as amended: the precomputed vector is returned if and only if the
\* request's signature, trimmed, equals the recomputed one and the vector has
\* an item that is not blank; what is returned is the vector with each item
\* trimmed and the blank items dropped; the smart-segmentation LLM is not
\* invoked on that path, and otherwise the text is re-segmented.
PrecomputedSegmentReuseOfCleanedVector ==
    call.op = "_segment_text" =>
        /\ (/\ call.payload.segment_request_signature.digest
                 = RecomputedSignature(call.payload)
            /\ \E i \in 1..Len(call.payload.precomputed_segments) :
                 Strip(call.payload.precomputed_segments[i]) # "")
           <=> ~call.result.from_plan
        /\ ~call.result.from_plan =>
             /\ call.result.segments
                  = SelectSeq(TrimmedItems(call.payload.precomputed_segments),
                              LAMBDA s : s # "")
             /\ ~call.result.plan.llm_invoked
        /\ call.result.from_plan =>
             /\ call.result.plan.segmenter = call.payload.segment_method
             /\ call.result.plan.text = call.payload.text

\* a smart request with the matching signature and a vector of two items to
\* trim: the vector came back trimmed and no plan was built
PrecomputedSegmentReuseWitness ==
    /\ call.op = "_segment_text"
    /\ call.payload.segment_method = "smart"
    /\ call.payload.segment_request_signature.digest = RecomputedSignature(call.payload)
    /\ call.payload.precomputed_segments = <<" s ", "s">>
    /\ call.result.segments = <<"s", "s">>
    /\ call.result.plan = NoPlan
\* the ranges the claim calls invalid: a malformed token, a value below 1, a
\* range that selects no segment
InvalidRanges == {"x", "0-1", "9-9"}

\* C14: validation errors create no job.  A generate-video request with empty
\* text or with an invalid segment_groups_range leaves no job row, no payload
\* row and no worker behind.
ValidationErrorsCreateNoJob ==
    (/\ call.op = "generate_video"
     /\ \/ Strip(call.text) = ""
        \/ call.segment_groups_range \in InvalidRanges)
    => \A j \in JobIds :
         /\ jobs[j].status = "none"
         /\ ~payloads[j].present
         /\ j \notin ACTIVE_RUNNERS
         /\ \A k \in Slots : worker[j][k].pc = "idle"

\* a request with a malformed range: its job has run and is stored as failed
InvalidRangeJobFailed ==
    /\ call.op = "generate_video"
    /\ call.segment_groups_range = "x"
    /\ call.job \in JobIds
    /\ jobs[call.job].status = "failed"
    /\ payloads[call.job].present
    /\ \E k \in Slots : worker[call.job][k].pc = "exit"

\* nothing is stored for job j: get and load_payload return None, is_cancelled False
StoreViewEmpty(j) ==
    /\ jobs[j] = NullRow
    /\ payloads[j] = NullPayload
    /\ ~is_cancelled(j)

\* C15: a call of delete_job(id) removes the row, the payload and the cancel
\* flag of id in one step, so that no state in between exists in which only
\* some of the three are gone, and the rows, payloads and flags of every other
\* job are after the call what they were before it.
DeleteJobRemovesAllThree ==
    [][\A j \in JobIds :
          (call'.op = "delete_job" /\ call'.job = j)
          => /\ StoreViewEmpty(j)'
             /\ \A o \in JobIds \ {j} : StoreView(o)' = StoreView(o)]_vars

\* delete_job has returned for a job that had a row, a payload and a flag,
\* while another job holds all three
DeleteJobRemovesAllThreeWitness ==
    /\ call.op = "delete_job"
    /\ call.before.row # NullRow
    /\ call.before.payload # NullPayload
    /\ call.before.flag
    /\ StoreViewEmpty(call.job)
    /\ \E o \in JobIds \ {call.job} :
          /\ jobs[o] # NullRow
          /\ payloads[o] # NullPayload
          /\ is_cancelled(o)

\* the step in which runner thread k of job j leaves run_video_job
RunVideoJobReturns(j, k) ==
    /\ worker[j][k].pc = "finally"
    /\ worker'[j][k].pc = "exit"

\* the step in which resume_job calls clear_cancel(j)
ResumeClearsCancel(j) ==
    /\ http.op = "resume" /\ http.pc = "payload" /\ http.job = j
    /\ http'.pc = "queue"

\* the step in which the delete handler calls delete_job(j)
DeleteJobCalled(j) ==
    /\ http.op = "delete" /\ http.pc = "row" /\ http.job = j
    /\ http' = IdleHttp

\* the step in which cancel(j) returns true to cancel_job, which goes on
CancelReturnsTrue(j) ==
    /\ http.op = "none"
    /\ http'.op = "cancel" /\ http'.job = j

IncompleteByCreation == SelectSeq(created_order, LAMBDA j : IsIncomplete(jobs[j]))

\* C17: what list_incomplete_job_ids returns is exactly the ids whose stored
\* status is queued or running, the job created first coming first, whatever
\* updates the rows have received since their creation.
ListIncompleteInCreationOrder ==
    call.op = "list_incomplete_job_ids" => call.result = IncompleteByCreation

\* list_incomplete_job_ids has returned two ids, the job created second first:
\* the row of the job created first was updated after the other one's
ListIncompleteInUpdateOrder ==
    /\ call.op = "list_incomplete_job_ids"
    /\ Len(call.result) = 2
    /\ Len(IncompleteByCreation) = 2
    /\ call.result[1] = IncompleteByCreation[2]
    /\ call.result[2] = IncompleteByCreation[1]

\* C18: in every reachable state a job whose stored status is completed has
\* its final file on disk, of at least 16 KiB, whatever size the compositor
\* produced and whatever status reads and final-video deletes have happened.
CompletedHasFinalFile ==
    \A j \in JobIds :
        jobs[j].status = "completed" => FinalSizeOk(final_size[j])

\* the thread has stored completed after a compose that left a file shorter
\* than 16 KiB, and nothing has touched the file since
CompletedWithShortFile ==
    \E j \in JobIds, k \in Slots :
        /\ worker[j][k].pc \in {"finally", "exit"}
        /\ worker[j][k].composed
        /\ jobs[j].status = "completed"
        /\ jobs[j].output_video_path = j
        /\ final_size[j] = MinFinalBytes - 1

\* the step in which _resolve_job_status(j) is called and returns
ResolveJobStatusReturns(j) ==
    /\ call = NoCall
    /\ call'.op = "_resolve_job_status"
    /\ call'.job = j

\* C19: a call of _resolve_job_status on a job whose output/<job>.mp4 has at
\* least 16 KiB and whose stored row is absent, failed, cancelled or (not being
\* queued or running) without an output path stores the completed row built
\* from the disk, which points at that file, and returns it; a call on a job
\* whose stored row is queued or running returns that row as stored and
\* writes nothing to the store or the disk.
StatusReadDiskAuthoritative ==
    [][\A j \in JobIds :
          ResolveJobStatusReturns(j)
          => /\ ( /\ DiskRecoverable(j)
                  /\ ~IsIncomplete(jobs[j])
                  /\ \/ jobs[j] = NullRow
                     \/ jobs[j].status \in {"failed", "cancelled"}
                     \/ jobs[j].output_video_path = "" )
                => /\ jobs'[j] = DiskJobStatus(j)
                   /\ call'.result = DiskJobStatus(j)
                   /\ call'.result.status = "completed"
                   /\ call'.result.output_video_path = j
                   /\ FinalSizeOk(final_size'[j])
             /\ IsIncomplete(jobs[j])
                => /\ call'.result = jobs[j]
                   /\ UNCHANGED <<storeVars, diskVars>>]_vars

\* a status read over a cancelled row has stored and returned the disk row
StatusReadDiskAuthoritativeWitness ==
    /\ call.op = "_resolve_job_status"
    /\ call.before.status = "cancelled"
    /\ call.result.status = "completed"
    /\ jobs[call.job] = call.result
    /\ FinalSizeOk(final_size[call.job])

\* the characters of the last call of _sanitize_character_voices
SanitizedIndexes == 1..Len(call.characters)

\* the number of catalog voices other than the narrator's
NonNarratorVoices == Cardinality(AvailableVoices \ {NARRATOR_VOICE_ID})

\* C20: after _sanitize_character_voices no two characters have the same voice
\* id unless there are more characters than catalog voices other than the
\* narrator's, and no character has the narrator voice unless its voice id on
\* input was the narrator voice.
VoiceUniqueness ==
    call.op = "_sanitize_character_voices"
    => /\ Len(call.characters) <= NonNarratorVoices
          => \A a, b \in SanitizedIndexes :
                a # b => call.result[a].voice_id # call.result[b].voice_id
       /\ \A a \in SanitizedIndexes :
             call.result[a].voice_id = NARRATOR_VOICE_ID
             => call.characters[a].voice_id = NARRATOR_VOICE_ID

\* more characters than voices: one that came in without a voice id leaves
\* with the narrator's
NarratorVoiceAssigned ==
    /\ call.op = "_sanitize_character_voices"
    /\ Len(call.characters) > NonNarratorVoices
    /\ \E a \in SanitizedIndexes :
          /\ call.characters[a].voice_id = ""
          /\ call.result[a].voice_id = NARRATOR_VOICE_ID

\* what every call of synthesize_tts has in common: a pair with a positive
\* duration, after at most one remote and at most two local attempts
TtsReturnsAfterBoundedAttempts ==
    /\ call.result.duration > 0
    /\ call.result.remote_attempts <= 1
    /\ call.result.local_attempts <= 2
    /\ call.result.silent => call.result.path = "wav"

\* C21 as stated: synthesize_tts returns a pair with a positive duration after
\* at most one remote and two local attempts, and the silent WAV it falls back
\* to lasts max(1.5, 0.22 * len(text)) seconds, text being the argument.
TtsNeverFatal ==
    call.op = "synthesize_tts"
    => /\ TtsReturnsAfterBoundedAttempts
       /\ call.result.silent
          => call.result.duration = Max(EstimateFloor, EstimatePerChar * TextLen(call.text))

\* C21: synthesize_tts returns a pair with a positive duration after at most
\* one remote and two local attempts, and the silent WAV it falls back to lasts
\* max(1.5, 0.22 * n) seconds, n being the length of the text once the blanks
\* around it are stripped.
TtsNeverFatalOnStrippedText ==
    call.op = "synthesize_tts"
    => /\ TtsReturnsAfterBoundedAttempts
       /\ call.result.silent
          => call.result.duration =
                Max(EstimateFloor, EstimatePerChar * TextLen(StripText(call.text)))

\* the remote endpoint and both local attempts have failed on a text long
\* enough for the estimate to pass the floor; the silent WAV was written
TtsNeverFatalWitness ==
    /\ call.op = "synthesize_tts"
    /\ call.tts_api_url /\ call.remote = "fail"
    /\ call.local[1] = "fail" /\ call.local[2] = "fail"
    /\ call.result.silent
    /\ call.result.remote_attempts = 1 /\ call.result.local_attempts = 2
    /\ call.result.duration > EstimateFloor

\* C22: in every run of the worker on a job the segment vector is that of the
\* first run (so total_segments is the same in every run), and every clip on
\* disk was rendered from the segment that has its index in the current run;
\* for each of the three segmentation methods, with or without precomputed
\* segments.
SegmentsImmutableAcrossRuns ==
    call.op = "run_video_job"
    => /\ call.segments = call.first
       /\ \A i \in 1..Len(call.clips) :
             /\ i <= Len(call.segments)
             /\ call.clips[i] = call.segments[i]

\* a second run of a job segmented by the LLM, no precomputed segments in play:
\* it has fewer segments than the first run, whose clips are still on disk
SegmentsChangedOnRerun ==
    /\ call.op = "run_video_job"
    /\ call.run = 2
    /\ call.payload.segment_method = "smart"
    /\ SegmentText(call.payload).from_plan
    /\ Len(call.segments) < Len(call.first)
    /\ Len(call.clips) = Len(call.first)
    /\ call.clips[1] # call.segments[1]

\* C23: a thread that is about to collect the clips for compose while some
\* clip_i, 0 <= i < N, is missing goes to its exception handler without the
\* compositor running (the final file is not written), and the handler stores
\* the job as failed.
ComposeRequiresEveryClip ==
    [][\A j \in JobIds, k \in Slots :
          ThreadStepped(j, k)
          => /\ (worker[j][k].pc = "compose"
                    /\ ~CollectClipPathsOk(j, worker[j][k].total))
                => /\ worker'[j][k].pc = "except"
                   /\ worker'[j][k].composed = worker[j][k].composed
                   /\ final_size' = final_size
             /\ worker[j][k].pc = "except"
                => /\ jobs'[j].status = "failed"
                   /\ worker'[j][k].pc = "finally"]_vars

\* a run went through its whole loop, found a clip missing at compose and has
\* stored failed; no final file was composed
ComposeRequiresEveryClipWitness ==
    \E j \in JobIds, k \in Slots :
        /\ worker[j][k].pc = "finally"
        /\ worker[j][k].total > 0
        /\ worker[j][k].index = worker[j][k].total
        /\ ~worker[j][k].composed
        /\ ~CollectClipPathsOk(j, worker[j][k].total)
        /\ jobs[j].status = "failed"
        /\ ~FinalSizeOk(final_size[j])

\* C24: the step in which a thread finds the cancel flag at the top of the
\* iteration for segment index i of N stores a row with status cancelled,
\* current_segment = i, total_segments = N and clip_count = i, every earlier
\* segment of the run having been rendered or found on disk and counted.
CountersAtCancellation ==
    [][\A j \in JobIds, k \in Slots :
          (ThreadStepped(j, k) /\ worker[j][k].pc = "top" /\ is_cancelled(j))
          => /\ jobs'[j].status = "cancelled"
             /\ jobs'[j].current_segment = worker[j][k].index
             /\ jobs'[j].total_segments = worker[j][k].total
             /\ jobs'[j].clip_count = worker[j][k].index
             /\ worker'[j][k].pc = "finally"]_vars

\* a run of two segments stopped at the top of its second iteration: the row
\* says cancelled at 1 of 2 with one clip
CountersAtCancellationWitness ==
    \E j \in JobIds, k \in Slots :
        /\ worker[j][k].pc = "finally"
        /\ worker[j][k].cancel_seen_at = 1
        /\ worker[j][k].total = 2
        /\ jobs[j].status = "cancelled"
        /\ jobs[j].current_segment = 1
        /\ jobs[j].total_segments = 2
        /\ jobs[j].clip_count = 1

\* The usable rows of a recorded strict lookup that match the target's
\* character and carry the target's action and location hints.
SameTextRows ==
    {e \in call.usable :
        /\ CharacterMatch(BuildMatchProfile(call.target), EntryMatchProfile(e))
        /\ call.texts[e] = call.target_text}

\* what C25 promises of a lookup: a text-exact hit of confidence 1.0 on a row
\* of the target's hints, no selector call, and the tally under cache once the
\* cached image is rendered
TextExactHitReturned ==
    /\ call.matched.match_type = "text-exact"
    /\ call.matched.confidence = 100
    /\ call.matched.entry_id \in CatalogIds
    /\ call.texts[call.matched.entry_id] = call.target_text
    /\ ~call.llm_consulted
    /\ (call.result.error = "" => call.result.source = "cache")

CacheSizeBound ==
    (call.op = "scene_cache" /\ call.last = "save") =>
        /\ Cardinality(call.entries) <= MaxKept
        /\ call.entries \subseteq call.inserted
        /\ \A e \in call.entries, d \in call.inserted \ call.entries :
              d.created_at < e.created_at
        /\ \E e \in call.entries : e.id = call.saved

\* C26 witness: a save that deleted a row
CacheSizeBoundWitness ==
    /\ call.op = "scene_cache"
    /\ call.last = "save"
    /\ call.inserted \ call.entries # {}
    /\ Cardinality(call.entries) = MaxKept

\* C27: every binding row refers to a row of scene_entries, and every row of
\* scene_entries with reference paths has its binding rows.
BindingsConsistent ==
    call.op = "scene_cache" =>
        /\ \A b \in call.bindings : \E e \in call.entries : e.id = b.entry_id
        /\ \A e \in call.entries : EntryBindings(e) \subseteq call.bindings

\* C27 divergence reached: a save has pruned a row whose binding rows remain
OrphanBindingAfterPrune ==
    /\ call.op = "scene_cache"
    /\ call.last = "save"
    /\ \E b \in call.bindings : \A e \in call.entries : e.id # b.entry_id

\* C28: create_job writes the job row, and starts the worker, only with the
\* payload row stored, and no step removes a payload row and leaves the job
\* row: from its creation by create_job until it is deleted, through any
\* crash, a job row has a payload row.
PayloadBeforeStart ==
    [][\A j \in JobIds :
          /\ CreateJobQueue(j) => (payloads[j].present /\ payloads'[j].present)
          /\ CreateJobStart(j) => (jobs[j].status # "none" /\ payloads[j].present)
          /\ (payloads[j].present /\ ~payloads'[j].present) => jobs'[j].status = "none"]_vars

\* C28 witness: create_job has stored the payload and the row, and is about
\* to start the worker
PayloadBeforeStartWitness ==
    \E j \in JobIds :
        /\ http.op = "create" /\ http.pc = "start" /\ http.job = j
        /\ jobs[j].status = "queued"
        /\ payloads[j].present
        /\ j \notin ACTIVE_RUNNERS

\* a recorded call of build_segment_image_bundle in LLM trouble: an HTTP
\* error, a timeout, an unparseable response or a response without a prompt
BundleInLlmTrouble ==
    /\ call.op = "build_segment_image_bundle"
    /\ call.llm_api_key
    /\ call.reply.outcome # "prompt"

RECURSIVE Concatenated(_)
Concatenated(sentences) ==
    IF sentences = <<>> THEN <<>> ELSE Head(sentences) \o Concatenated(Tail(sentences))

\* a sequence of characters without its blanks
RECURSIVE NonBlank(_)
NonBlank(chars) ==
    IF chars = <<>> THEN <<>>
    ELSE IF Head(chars) = " " THEN NonBlank(Tail(chars))
    ELSE <<Head(chars)>> \o NonBlank(Tail(chars))

\* the positions of the delimiters C30 says are split after
SplitDelimiters(clean) ==
    {i \in 1..Len(clean) :
        /\ clean[i] \in {".", "?", "!"}
        /\ ~(i < Len(clean) /\ clean[i + 1] \in {".", "?", "!"})
        /\ ~(i < Len(clean) /\ clean[i + 1] \in {"(", "\""})
        /\ ~(/\ clean[i] = "." /\ i > 1 /\ i < Len(clean)
              /\ clean[i - 1] = "1" /\ clean[i + 1] = "1")
        /\ ~(clean[i] = "?" /\ i > 1 /\ clean[i - 1] = "?")}

\* the last of the closing quotes and brackets that follow position i
LastClosingAfter(clean, i) ==
    CHOOSE k \in i..Len(clean) :
        /\ \A c \in (i + 1)..k : clean[c] \in {")", "\""}
        /\ (k < Len(clean) => clean[k + 1] \notin {")", "\""})

\* C30: split_sentences ends a sentence after each delimiter that is not
\* followed by a delimiter or an opening mark, is not a "." between digits
\* and is not a "?" after a "?", and nowhere else but at the end of the
\* text; the closing marks after such a delimiter end the sentence; no
\* sentence is empty, and the sentences hold in order every non-blank
\* character of the normalized text.
SentenceSplitRules ==
    call.op = "split_sentences" =>
        /\ call.result.cuts =
              {LastClosingAfter(call.clean, i) : i \in SplitDelimiters(call.clean)}
        /\ \A s \in 1..Len(call.result.sentences) :
              /\ call.result.sentences[s] # <<>>
              /\ Head(call.result.sentences[s]) # " "
        /\ NonBlank(Concatenated(call.result.sentences)) = NonBlank(call.clean)
        /\ Len(call.result.sentences) =
              Cardinality(call.result.cuts \cup {Len(call.clean)})

\* C30 witness: a delimiter followed by a closing mark and more text: the
\* closing mark ends the first of two sentences
SentenceSplitRulesWitness ==
    /\ call.op = "split_sentences"
    /\ call.clean = <<"a", "!", ")", "a">>
    /\ call.result.sentences = <<(<<"a", "!", ")">>), (<<"a">>)>>

\* the segments a token names: a range its interval in either direction, a
\* number that segment, a lone number n the first n
NamedBy(part, lone, total) ==
    IF part.kind = "range"
    THEN {n \in 1..total :
            \/ (part.low <= n /\ n <= part.high)
            \/ (part.high <= n /\ n <= part.low)}
    ELSE IF lone THEN {n \in 1..total : n <= part.low}
    ELSE {n \in 1..total : n = part.low}

\* a recorded call of select_segments_by_range that returned a selection for
\* 1-based tokens
RangeSelected ==
    /\ call.op = "select_segments_by_range"
    /\ call.parts # <<>>
    /\ call.result.error = ""
    /\ \A i \in 1..Len(call.parts) :
          /\ call.parts[i].kind # "text"
          /\ call.parts[i].low >= 1
          /\ call.parts[i].kind = "range" => call.parts[i].high >= 1

\* C31: the selection holds the segments the tokens name up to the segment
\* count, none twice; a reversed range selects what the range selects; a lone
\* number n selects the first n; 2,4-6,9-20 on ten segments gives
\* 2,4,5,6,9,10.
RangeSelection ==
    RangeSelected =>
        LET selected == call.result.selected
            reversed == [i \in 1..Len(call.parts) |->
                            IF call.parts[i].kind = "range"
                            THEN [call.parts[i] EXCEPT !.low = call.parts[i].high,
                                                       !.high = call.parts[i].low]
                            ELSE call.parts[i]]
        IN /\ \A i, k \in 1..Len(selected) : i # k => selected[i] # selected[k]
           /\ SeqRange(selected) =
                 UNION {NamedBy(call.parts[i], Len(call.parts) = 1, call.total) :
                          i \in 1..Len(call.parts)}
           /\ SelectSegmentsByRangeParts(call.total, reversed).selected = selected
           /\ (Len(call.parts) = 1 /\ call.parts[1].kind = "number") =>
                 selected = [n \in 1..(IF call.parts[1].low < call.total
                                        THEN call.parts[1].low ELSE call.total) |-> n]
           /\ (call.parts = ExampleParts /\ call.total = ExampleTotal) =>
                 selected = <<2, 4, 5, 6, 9, 10>>

\* C31 witness: the example of the claim
RangeSelectionWitness ==
    /\ RangeSelected
    /\ call.parts = ExampleParts
    /\ call.total = ExampleTotal
    /\ Len(call.result.selected) = 6

\* The job was removed by the delete-job operation: create_job drew its id,
\* and neither its row nor its payload is stored (create_job stores the
\* payload first, and only delete_job removes one).
JobDeleted(j) ==
    /\ j \in used_ids
    /\ jobs[j].status = "none"
    /\ ~payloads[j].present

\* C32: once a job is deleted no step writes a job row, a clip file or a
\* final video for its id.
DeletedJobStaysDeleted ==
    [][\A j \in JobIds :
          JobDeleted(j) =>
             /\ jobs'[j].status = "none"
             /\ clips'[j] \subseteq clips[j]
             /\ final_size'[j] \in {final_size[j], Absent}]_vars

\* C32 divergence reached: cancel_job stored cancelled, the job was deleted,
\* and the row is stored again without its payload
DeletedJobRowRecreated ==
    \E j \in JobIds :
        /\ j \in used_ids
        /\ jobs[j].status # "none"
        /\ ~payloads[j].present

\* C33: a job whose row a returned create_job or resume_job left queued is
\* taken up by a worker: the row does not stay queued for ever.
ResumedJobNeverStranded ==
    \A j \in JobIds : (jobs[j].status = "queued" /\ http.op = "none") ~> (jobs[j].status # "queued")

\* C33 divergence reached: resume_job has returned, the row is queued, the
\* active-runner set is empty and no thread of the job is alive
ResumedJobStranded ==
    \E j \in JobIds :
        /\ jobs[j].status = "queued"
        /\ http.op = "none"
        /\ j \notin ACTIVE_RUNNERS
        /\ \A k \in Slots : worker[j][k].pc = "idle"


\* C34: a clip file that a worker takes for a checkpoint and skips was written
\* to its end; no crash during the render of a segment leaves a clip a later
\* run skips.
CheckpointsAreWholeClips ==
    [][\A j \in JobIds, k \in Slots :
         WorkerSkipClip(j, k) => W(j, k).index \in whole_clips[j]]_vars

\* a run has skipped a clip whose write never finished
PartialClipSkipped ==
    \E j \in JobIds, k \in Slots :
        \E i \in W(j, k).seen_existing :
            /\ i < W(j, k).index
            /\ i \in clips[j] \ whole_clips[j]
            /\ crashes > 0


\* C35: the counters of every stored row stay within the number of segments,
\* 0 <= clip_count <= total_segments and 0 <= current_segment <=
\* total_segments, also on the rows the failure path and the payload-missing
\* path store.
StoredCountersWithinTotal ==
    \A j \in JobIds :
        jobs[j].status # "none"
        => /\ 0 <= jobs[j].clip_count
           /\ jobs[j].clip_count <= jobs[j].total_segments
           /\ 0 <= jobs[j].current_segment
           /\ jobs[j].current_segment <= jobs[j].total_segments

\* a failed row counts clips of a job of no segments
FailedRowCountsClipsOfNoSegments ==
    \E j \in JobIds :
        /\ jobs[j].status = "failed"
        /\ jobs[j].total_segments = 0
        /\ jobs[j].clip_count > 0


\* C36: what the segment-text operation returns for a request with fixed_size
\* f, its signature and its segments, is accepted as the precomputed segments
\* of a job for the same text, method, sentences_per_segment and model_id, for
\* every f of 20..1000 and every method.
SignatureRoundTrip ==
    call.op = "segment_text_then_job"
    => /\ ~call.result.from_plan
       /\ call.result.segments = CleanSegments(call.response.segments)

\* the job segments again a text that was segmented with another fixed_size
SignatureOfOtherFixedSizeRefused ==
    /\ call.op = "segment_text_then_job"
    /\ call.fixed_size # SegmentTextFixedSize
    /\ call.result.from_plan


\* C37: once cancel_job has stored cancelled over the row of a job whose
\* worker is under way, no store of that worker puts the status back to
\* running, as long as resume_job is not called (which clears the flag).
CancelAccepted(j) ==
    /\ jobs[j].status = "cancelled"
    /\ jobs[j].message = "Cancel request accepted, stopping"
    /\ j \in cancel_flags
    /\ http.op # "resume"
    /\ \E k \in Slots : W(j, k).pc \notin {"idle", "begin"}

AcceptedCancelNotUndone ==
    [][\A j \in JobIds : CancelAccepted(j) => jobs'[j].status # "running"]_vars

\* cancel_job has returned, the flag is still set, and the row is the running
\* row the worker stored after the segment in flight
CancelledOverwrittenWithRunning ==
    \E j \in JobIds, k \in Slots :
        /\ http.op = "none"
        /\ j \in cancel_flags
        /\ jobs[j].status = "running"
        /\ jobs[j].message = "Scene rendered"
        /\ W(j, k).pc \in {"top", "post_loop"}
        /\ W(j, k).cancel_seen_at = -1

====
